---- MODULE Spec2Model ----
(***************************************************************************)
(* A model of the columnar geometry arrays of datafusion-geo: the typed    *)
(* array builders (Point, LineString, MultiPoint, Polygon), the arrays     *)
(* they build, the scalar views read back from them, the WKB blob builder  *)
(* and the Mixed (union) array.                                            *)
(*                                                                         *)
(* Rows, offsets and indices are 0-based in the source; sequences are      *)
(* 1-based here, so At(s, i) reads element i of the source's buffer.       *)
(* f64 coordinates are modelled by small integers.                         *)
(***************************************************************************)
EXTENDS Integers, Sequences, FiniteSets, TLC

\* ------------------------------------------------------------------ bounds
MaxRows == 3
MaxLen == 2
MaxBase == 1
MaxHoles == 1
MixedRows == 2

\* ------------------------------------------------- Option / Result values
None == [some |-> FALSE]
Some(x) == [some |-> TRUE, v |-> x]
Ok(x) == [ok |-> TRUE, panic |-> FALSE, v |-> x]
Err(m) == [ok |-> FALSE, panic |-> FALSE, err |-> m]
Panic(m) == [ok |-> FALSE, panic |-> TRUE, err |-> m]

At(s, i) == s[i + 1]
Last(s) == s[Len(s)]

\* slice.get(i): None outside the buffer
Get(s, i) == IF i >= 0 /\ i < Len(s) THEN Some(At(s, i)) ELSE None

\* --------------------------------------------------------- pushed values
\* geo values a caller can hand to the builders
GeoCoord(b, i) == <<b + i, b + i + 1>>
GeoPoints == {GeoCoord(b, 1) : b \in 0..MaxBase}
GeoLineStrings == {[i \in 1..n |-> GeoCoord(b, i)] : n \in 0..MaxLen, b \in 0..MaxBase}
GeoMultiPoints == GeoLineStrings

\* a ring of a geo::Polygon is closed (geo::Polygon::new closes every ring):
\* ring k of a polygon has n coordinates, the first equal to the last
GeoRing(n, k) == [i \in 1..n |-> IF i = n THEN <<1, k>> ELSE <<i, k>>]
GeoPolygons == {[exterior |-> GeoRing(ne, 0), interiors |-> [k \in 1..h |-> GeoRing(nh, k)]] : ne \in 0..MaxLen, nh \in 0..MaxLen, h \in 0..MaxHoles}

\* ------------------------------------------------------------ CoordBuffer
CoordBuffer_try_new(cs) == IF Len(cs) % 2 # 0 THEN Err("x and y arrays must have the same length") ELSE Ok([coords |-> cs])
CoordBuffer_len(cb) == Len(cb.coords) \div 2
CoordBuffer_x(cb, i) == Get(cb.coords, i * 2)
CoordBuffer_y(cb, i) == Get(cb.coords, i * 2 + 1)

\* a slice that always starts at the first coordinate
CoordBuffer_slice_from_start(cb, offset, length) ==
  IF offset + length > CoordBuffer_len(cb)
  THEN Err("offset + length may not exceed length of array")
  ELSE Ok([coords |-> SubSeq(cb.coords, 1, length * 2)])
\* a slice that counts offset and length in floats, not in coordinates
CoordBuffer_slice_in_floats(cb, offset, length) ==
  IF offset + length > CoordBuffer_len(cb)
  THEN Err("offset + length may not exceed length of array")
  ELSE Ok([coords |-> SubSeq(cb.coords, offset + 1, offset + length)])
CoordBuffer_slice(cb, offset, length) ==
  IF offset + length > CoordBuffer_len(cb)
  THEN Err("offset + length may not exceed length of array")
  ELSE Ok([coords |-> SubSeq(cb.coords, offset * 2 + 1, offset * 2 + length * 2)])

CoordBufferBuilder_len(cs) == Len(cs) \div 2
CoordBufferBuilder_push_xy(cs, x, y) == Append(Append(cs, x), y)
CoordBufferBuilder_push_geo_coord(cs, c) == Append(Append(cs, c[1]), c[2])
RECURSIVE PushGeoCoords(_, _)
PushGeoCoords(cs, ring) == IF ring = <<>> THEN cs ELSE PushGeoCoords(CoordBufferBuilder_push_geo_coord(cs, Head(ring)), Tail(ring))
RECURSIVE PushPoints(_, _)
PushPoints(cs, pts) == IF pts = <<>> THEN cs ELSE PushPoints(CoordBufferBuilder_push_xy(cs, Head(pts)[1], Head(pts)[2]), Tail(pts))
CoordBufferBuilder_build(cs) == CoordBuffer_try_new(cs)

\* ------------------------------------------------------ NullBufferBuilder
\* arrow's NullBufferBuilder keeps only a count until the first null is
\* appended; finish_cloned gives no buffer when no null was ever appended
NullBufferBuilder_new == [bitmap |-> None, len |-> 0]
Materialized(nb) == IF nb.bitmap.some THEN nb.bitmap.v ELSE [i \in 1..nb.len |-> TRUE]
NullBufferBuilder_append_non_null(nb) == IF nb.bitmap.some THEN [nb EXCEPT !.bitmap = Some(Append(nb.bitmap.v, TRUE))] ELSE [nb EXCEPT !.len = nb.len + 1]
NullBufferBuilder_append_null(nb) == [nb EXCEPT !.bitmap = Some(Append(Materialized(nb), FALSE))]
NullBufferBuilder_append(nb, not_null) == IF not_null THEN NullBufferBuilder_append_non_null(nb) ELSE NullBufferBuilder_append_null(nb)
NullBufferBuilder_len(nb) == IF nb.bitmap.some THEN Len(nb.bitmap.v) ELSE nb.len
NullBufferBuilder_finish_cloned(nb) == nb.bitmap

\* OffsetBuffer::new panics on an empty, negative or decreasing buffer
OffsetBuffer_new_ok(offs) == /\ Len(offs) >= 1
                             /\ offs[1] >= 0
                             /\ \A i \in 1..(Len(offs) - 1) : offs[i] <= offs[i + 1]

check_nulls(nulls, expected_len) == IF nulls.some /\ Len(nulls.v) # expected_len THEN Err("nulls mask length must match the number of values") ELSE Ok(TRUE)

\* ------------------------------------------------------------------ arrays
PointArray_try_new(cb, nulls) == IF ~check_nulls(nulls, CoordBuffer_len(cb)).ok THEN check_nulls(nulls, CoordBuffer_len(cb)) ELSE Ok([coords |-> cb, nulls |-> nulls])

LineStringArray_try_new(cb, geom_offs, nulls) ==
  IF ~check_nulls(nulls, Len(geom_offs) - 1).ok THEN check_nulls(nulls, Len(geom_offs) - 1)
  ELSE IF Last(geom_offs) # CoordBuffer_len(cb) THEN Err("largest geometry offset must match coords length")
  ELSE Ok([coords |-> cb, geom_offsets |-> geom_offs, nulls |-> nulls])

MultiPointArray_try_new(cb, geom_offs, nulls) ==
  IF ~check_nulls(nulls, Len(geom_offs) - 1).ok THEN check_nulls(nulls, Len(geom_offs) - 1)
  ELSE IF Last(geom_offs) # CoordBuffer_len(cb) THEN Err("largest geometry offset must match coords length")
  ELSE Ok([coords |-> cb, geom_offsets |-> geom_offs, nulls |-> nulls])

\* a try_new that leaves out the check of geom_offsets against ring_offsets
PolygonArray_try_new_no_geom_check(cb, geom_offs, ring_offs, nulls) ==
  IF ~check_nulls(nulls, Len(geom_offs) - 1).ok THEN check_nulls(nulls, Len(geom_offs) - 1)
  ELSE IF Last(ring_offs) # CoordBuffer_len(cb) THEN Err("largest ring offset must match coords length")
  ELSE Ok([coords |-> cb, geom_offsets |-> geom_offs, ring_offsets |-> ring_offs, nulls |-> nulls])
PolygonArray_try_new(cb, geom_offs, ring_offs, nulls) ==
  IF ~check_nulls(nulls, Len(geom_offs) - 1).ok THEN check_nulls(nulls, Len(geom_offs) - 1)
  ELSE IF Last(ring_offs) # CoordBuffer_len(cb) THEN Err("largest ring offset must match coords length")
  ELSE IF Last(geom_offs) # Len(ring_offs) - 1 THEN Err("largest geometry offset must match ring offsets length")
  ELSE Ok([coords |-> cb, geom_offsets |-> geom_offs, ring_offsets |-> ring_offs, nulls |-> nulls])

\* ---------------------------------------------------------------- builders
PointArrayBuilder_new == [coords |-> <<>>, nulls |-> NullBufferBuilder_new]
\* a push_null that stores no placeholder coordinate
PointArrayBuilder_push_null_no_placeholder(b) == [coords |-> b.coords, nulls |-> NullBufferBuilder_append(b.nulls, FALSE)]
PointArrayBuilder_push_null(b) == [coords |-> CoordBufferBuilder_push_xy(b.coords, 0, 0), nulls |-> NullBufferBuilder_append(b.nulls, FALSE)]
PointArrayBuilder_push_geo_point(b, value) ==
  IF value.some
  THEN [coords |-> CoordBufferBuilder_push_xy(b.coords, value.v[1], value.v[2]), nulls |-> NullBufferBuilder_append(b.nulls, TRUE)]
  ELSE PointArrayBuilder_push_null(b)
PointArrayBuilder_build(b) ==
  LET cb == CoordBufferBuilder_build(b.coords)
      nulls == NullBufferBuilder_finish_cloned(b.nulls)
  IN IF ~cb.ok THEN Panic("coords")
     ELSE IF ~PointArray_try_new(cb.v, nulls).ok THEN Panic("builder has checked")
     ELSE PointArray_try_new(cb.v, nulls)

LineStringArrayBuilder_new == [coords |-> <<>>, geom_offsets |-> <<>>, nulls |-> NullBufferBuilder_new]
LineStringArrayBuilder_push_null(b) ==
  [b EXCEPT !.geom_offsets = Append(b.geom_offsets, CoordBufferBuilder_len(b.coords)),
            !.nulls = NullBufferBuilder_append_null(b.nulls)]
\* a push that reads the row's start offset after appending its coordinates
LineStringArrayBuilder_push_offset_after(b, value) ==
  IF value.some
  THEN [coords |-> PushGeoCoords(b.coords, value.v),
        geom_offsets |-> Append(b.geom_offsets, CoordBufferBuilder_len(PushGeoCoords(b.coords, value.v))),
        nulls |-> NullBufferBuilder_append(b.nulls, TRUE)]
  ELSE LineStringArrayBuilder_push_null(b)
LineStringArrayBuilder_push_geo_line_string(b, value) ==
  IF value.some
  THEN LET offset == CoordBufferBuilder_len(b.coords)
       IN [coords |-> PushGeoCoords(b.coords, value.v),
           geom_offsets |-> Append(b.geom_offsets, offset),
           nulls |-> NullBufferBuilder_append(b.nulls, TRUE)]
  ELSE LineStringArrayBuilder_push_null(b)
LineStringArrayBuilder_build(b) ==
  LET cb == CoordBufferBuilder_build(b.coords)
      offs == Append(b.geom_offsets, CoordBuffer_len(cb.v))
      nulls == NullBufferBuilder_finish_cloned(b.nulls)
  IN IF ~cb.ok THEN Panic("coords")
     ELSE IF ~OffsetBuffer_new_ok(offs) THEN Panic("offsets")
     ELSE IF ~LineStringArray_try_new(cb.v, offs, nulls).ok THEN Panic("builder has checked")
     ELSE LineStringArray_try_new(cb.v, offs, nulls)

MultiPointArrayBuilder_new == [coords |-> <<>>, geom_offsets |-> <<>>, nulls |-> NullBufferBuilder_new]
\* a push_null that marks the row invalid but records no offset for it
MultiPointArrayBuilder_push_null_no_offset(b) == [b EXCEPT !.nulls = NullBufferBuilder_append_null(b.nulls)]
MultiPointArrayBuilder_push_null(b) ==
  [b EXCEPT !.geom_offsets = Append(b.geom_offsets, CoordBufferBuilder_len(b.coords)),
            !.nulls = NullBufferBuilder_append_null(b.nulls)]
MultiPointArrayBuilder_push_geo_multipoint(b, value) ==
  IF value.some
  THEN [coords |-> PushPoints(b.coords, value.v),
        geom_offsets |-> Append(b.geom_offsets, CoordBufferBuilder_len(b.coords)),
        nulls |-> NullBufferBuilder_append(b.nulls, TRUE)]
  ELSE MultiPointArrayBuilder_push_null(b)
MultiPointArrayBuilder_build(b) ==
  LET cb == CoordBufferBuilder_build(b.coords)
      offs == Append(b.geom_offsets, CoordBuffer_len(cb.v))
      nulls == NullBufferBuilder_finish_cloned(b.nulls)
  IN IF ~cb.ok THEN Panic("coords")
     ELSE IF ~OffsetBuffer_new_ok(offs) THEN Panic("offsets")
     ELSE IF ~MultiPointArray_try_new(cb.v, offs, nulls).ok THEN Panic("builder has checked")
     ELSE MultiPointArray_try_new(cb.v, offs, nulls)

PolygonArrayBuilder_new == [coords |-> <<>>, geom_offsets |-> <<>>, ring_offsets |-> <<>>, nulls |-> NullBufferBuilder_new]
\* the offset pushed for a ring or a polygon: the last offset advanced by the
\* length of the value being pushed, or zero when the buffer is still empty
\* an offset that restarts from the pushed length instead of accumulating
NextOffset_not_cumulative(offs, length) == IF offs # <<>> THEN length ELSE 0
NextOffset(offs, length) == IF offs # <<>> THEN Last(offs) + length ELSE 0
RECURSIVE PushInteriors(_, _)
PushInteriors(b, interiors) ==
  IF interiors = <<>> THEN b
  ELSE PushInteriors([b EXCEPT !.ring_offsets = Append(b.ring_offsets, NextOffset(b.ring_offsets, Len(Head(interiors)))),
                               !.coords = PushGeoCoords(b.coords, Head(interiors))],
                     Tail(interiors))
PolygonArrayBuilder_push_null(b) ==
  LET last_offset == IF b.geom_offsets # <<>> THEN Last(b.geom_offsets) ELSE 0
  IN [b EXCEPT !.geom_offsets = Append(b.geom_offsets, last_offset),
               !.nulls = NullBufferBuilder_append_null(b.nulls)]
PolygonArrayBuilder_push_geo_polygon(b, value) ==
  IF value.some
  THEN LET polygon == value.v
           b1 == [b EXCEPT !.coords = PushGeoCoords(b.coords, polygon.exterior),
                           !.ring_offsets = Append(b.ring_offsets, NextOffset(b.ring_offsets, Len(polygon.exterior))),
                           !.geom_offsets = Append(b.geom_offsets, NextOffset(b.geom_offsets, Len(polygon.interiors)))]
           b2 == PushInteriors(b1, polygon.interiors)
       IN [b2 EXCEPT !.nulls = NullBufferBuilder_append(b2.nulls, TRUE)]
  ELSE PolygonArrayBuilder_push_null(b)
PolygonArrayBuilder_build(b) ==
  LET cb == CoordBufferBuilder_build(b.coords)
      ring_offs == Append(b.ring_offsets, CoordBuffer_len(cb.v))
      geom_offs == Append(b.geom_offsets, Len(ring_offs) - 1)
      nulls == NullBufferBuilder_finish_cloned(b.nulls)
  IN IF ~cb.ok THEN Panic("coords")
     ELSE IF ~OffsetBuffer_new_ok(ring_offs) \/ ~OffsetBuffer_new_ok(geom_offs) THEN Panic("offsets")
     ELSE IF ~PolygonArray_try_new(cb.v, geom_offs, ring_offs, nulls).ok THEN Panic("builder has checked")
     ELSE PolygonArray_try_new(cb.v, geom_offs, ring_offs, nulls)

\* ------------------------------------------------------------ scalar views
\* NullBuffer::is_null; a missing buffer means every row is valid
is_null(a, i) == IF a.nulls.some THEN ~At(a.nulls.v, i) ELSE FALSE
\* NullBuffer::is_null asserts that the index is inside the buffer
is_null_panics(a, i) == a.nulls.some /\ i >= Len(a.nulls.v)

compute_start_end_offset(geom_offs, geom_index) ==
  IF ~Get(geom_offs, geom_index).some THEN Err("Cannot get start_offset")
  ELSE IF ~Get(geom_offs, geom_index + 1).some THEN Err("Cannot get end_offset")
  ELSE Ok(<<Get(geom_offs, geom_index).v, Get(geom_offs, geom_index + 1).v>>)

Point_try_new(cb, geom_index) ==
  IF geom_index >= CoordBuffer_len(cb) THEN Err("geom_index is out of range of coords")
  ELSE Ok([coords |-> cb, geom_index |-> geom_index])
Point_x(p) == CoordBuffer_x(p.coords, p.geom_index).v
Point_y(p) == CoordBuffer_y(p.coords, p.geom_index).v
\* From<&Point> for geo::Point and for geo::Coord
Point_into_geo(p) == <<Point_x(p), Point_y(p)>>

LineString_try_new(cb, geom_offs, geom_index) ==
  LET se == compute_start_end_offset(geom_offs, geom_index)
  IN IF ~se.ok THEN se
     ELSE Ok([coords |-> cb, geom_offsets |-> geom_offs, geom_index |-> geom_index,
              start_offset |-> se.v[1], end_offset |-> se.v[2]])
LineString_num_coords(ls) == ls.end_offset - ls.start_offset
\* coords(): every coord(i), i < num_coords, each an expect() on Point::try_new
LineString_coords_ok(ls) == \A i \in 0..(LineString_num_coords(ls) - 1) : Point_try_new(ls.coords, ls.start_offset + i).ok
LineString_into_geo(ls) == [i \in 1..LineString_num_coords(ls) |-> Point_into_geo(Point_try_new(ls.coords, ls.start_offset + i - 1).v)]

MultiPoint_try_new(cb, geom_offs, geom_index) ==
  IF ~Get(geom_offs, geom_index).some THEN Err("Cannot get start_offset")
  ELSE IF ~Get(geom_offs, geom_index + 1).some THEN Err("Cannot get end_offset")
  ELSE Ok([coords |-> cb, geom_offsets |-> geom_offs, geom_index |-> geom_index,
           start_offset |-> Get(geom_offs, geom_index).v, end_offset |-> Get(geom_offs, geom_index + 1).v])
MultiPoint_num_points(mp) == mp.end_offset - mp.start_offset
MultiPoint_points_ok(mp) == \A i \in 0..(MultiPoint_num_points(mp) - 1) : Point_try_new(mp.coords, mp.start_offset + i).ok
MultiPoint_into_geo(mp) == [i \in 1..MultiPoint_num_points(mp) |-> Point_into_geo(Point_try_new(mp.coords, mp.start_offset + i - 1).v)]

Polygon_try_new(cb, geom_offs, ring_offs, geom_index) ==
  LET se == compute_start_end_offset(geom_offs, geom_index)
  IN IF ~se.ok THEN se
     ELSE IF se.v[1] = se.v[2] \/ Len(ring_offs) = 0 THEN Err("polygon should not be empty")
     ELSE Ok([coords |-> cb, geom_offsets |-> geom_offs, ring_offsets |-> ring_offs, geom_index |-> geom_index,
              start_offset |-> se.v[1], end_offset |-> se.v[2]])
Polygon_exterior(pg) == LineString_try_new(pg.coords, pg.ring_offsets, pg.start_offset)
Polygon_num_interiors(pg) == pg.end_offset - pg.start_offset - 1
\* an interior(i) that counts from the exterior ring
Polygon_interior_from_exterior(pg, i) ==
  IF i >= Polygon_num_interiors(pg) THEN None
  ELSE Some(LineString_try_new(pg.coords, pg.ring_offsets, pg.start_offset + i))
Polygon_interior(pg, i) ==
  IF i >= Polygon_num_interiors(pg) THEN None
  ELSE Some(LineString_try_new(pg.coords, pg.ring_offsets, pg.start_offset + i + 1))
\* geo::LineString::close, applied to every ring by geo::Polygon::new
GeoClose(ring) == IF Len(ring) = 0 \/ ring[1] = ring[Len(ring)] THEN ring ELSE Append(ring, ring[1])
\* to_geo panics when a ring view cannot be made or a coordinate is out of range
Polygon_rings_ok(pg) ==
  /\ Polygon_exterior(pg).ok
  /\ LineString_coords_ok(Polygon_exterior(pg).v)
  /\ \A i \in 0..(Polygon_num_interiors(pg) - 1) :
        /\ Polygon_interior(pg, i).v.ok
        /\ LineString_coords_ok(Polygon_interior(pg, i).v.v)
Polygon_into_geo(pg) ==
  [exterior |-> GeoClose(LineString_into_geo(Polygon_exterior(pg).v)),
   interiors |-> [k \in 1..Polygon_num_interiors(pg) |-> GeoClose(LineString_into_geo(Polygon_interior(pg, k - 1).v.v))]]

\* --------------------------------------------------- GeometryArrayAccessor
\* value(i): Ok(None) for a null row, else the scalar view or its error
PointArray_value(a, index) ==
  IF is_null_panics(a, index) THEN Panic("index out of bounds")
  ELSE IF is_null(a, index) THEN Ok(None)
  ELSE IF ~Point_try_new(a.coords, index).ok THEN Point_try_new(a.coords, index)
  ELSE Ok(Some(Point_try_new(a.coords, index).v))
LineStringArray_value(a, index) ==
  IF is_null_panics(a, index) THEN Panic("index out of bounds")
  ELSE IF is_null(a, index) THEN Ok(None)
  ELSE IF ~LineString_try_new(a.coords, a.geom_offsets, index).ok THEN LineString_try_new(a.coords, a.geom_offsets, index)
  ELSE Ok(Some(LineString_try_new(a.coords, a.geom_offsets, index).v))
MultiPointArray_value(a, index) ==
  IF is_null_panics(a, index) THEN Panic("index out of bounds")
  ELSE IF is_null(a, index) THEN Ok(None)
  ELSE IF ~MultiPoint_try_new(a.coords, a.geom_offsets, index).ok THEN MultiPoint_try_new(a.coords, a.geom_offsets, index)
  ELSE Ok(Some(MultiPoint_try_new(a.coords, a.geom_offsets, index).v))
PolygonArray_value(a, index) ==
  IF is_null_panics(a, index) THEN Panic("index out of bounds")
  ELSE IF is_null(a, index) THEN Ok(None)
  ELSE IF ~Polygon_try_new(a.coords, a.geom_offsets, a.ring_offsets, index).ok THEN Polygon_try_new(a.coords, a.geom_offsets, a.ring_offsets, index)
  ELSE Ok(Some(Polygon_try_new(a.coords, a.geom_offsets, a.ring_offsets, index).v))

PointArray_len(a) == CoordBuffer_len(a.coords)
LineStringArray_len(a) == Len(a.geom_offsets) - 1
MultiPointArray_len(a) == Len(a.geom_offsets) - 1
PolygonArray_len(a) == Len(a.geom_offsets) - 1

\* value_as_geo_unchecked(i): value(i).unwrap() then to_geo; a geo::Geometry
\* is tagged with its shape
PointArray_value_as_geo_unchecked(a, i) ==
  LET r == PointArray_value(a, i)
  IN IF ~r.ok THEN Panic("unwrap")
     ELSE IF ~r.v.some THEN Ok(None)
     ELSE Ok(Some([type |-> "Point", g |-> Point_into_geo(r.v.v)]))
LineStringArray_value_as_geo_unchecked(a, i) ==
  LET r == LineStringArray_value(a, i)
  IN IF ~r.ok THEN Panic("unwrap")
     ELSE IF ~r.v.some THEN Ok(None)
     ELSE IF ~LineString_coords_ok(r.v.v) THEN Panic("geom_index has been checked")
     ELSE Ok(Some([type |-> "LineString", g |-> LineString_into_geo(r.v.v)]))
MultiPointArray_value_as_geo_unchecked(a, i) ==
  LET r == MultiPointArray_value(a, i)
  IN IF ~r.ok THEN Panic("unwrap")
     ELSE IF ~r.v.some THEN Ok(None)
     ELSE IF ~MultiPoint_points_ok(r.v.v) THEN Panic("geom_index has been checked")
     ELSE Ok(Some([type |-> "MultiPoint", g |-> MultiPoint_into_geo(r.v.v)]))
PolygonArray_value_as_geo_unchecked(a, i) ==
  LET r == PolygonArray_value(a, i)
  IN IF ~r.ok THEN Panic("unwrap")
     ELSE IF ~r.v.some THEN Ok(None)
     ELSE IF ~Polygon_rings_ok(r.v.v) THEN Panic("geom_index has been checked")
     ELSE Ok(Some([type |-> "Polygon", g |-> Polygon_into_geo(r.v.v)]))

\* the typed builders, by name
Kinds == {"Point", "LineString", "MultiPoint", "Polygon"}
ArrayLen(k, a) ==
  CASE k = "Point" -> PointArray_len(a)
    [] k = "LineString" -> LineStringArray_len(a)
    [] k = "MultiPoint" -> MultiPointArray_len(a)
    [] k = "Polygon" -> PolygonArray_len(a)
ValueAsGeoUnchecked(k, a, i) ==
  CASE k = "Point" -> PointArray_value_as_geo_unchecked(a, i)
    [] k = "LineString" -> LineStringArray_value_as_geo_unchecked(a, i)
    [] k = "MultiPoint" -> MultiPointArray_value_as_geo_unchecked(a, i)
    [] k = "Polygon" -> PolygonArray_value_as_geo_unchecked(a, i)
\* iter_geo(): (0..len).map(value_as_geo_unchecked), collected; it panics
\* as soon as one row does
iter_geo(k, a) ==
  IF \E i \in 0..(ArrayLen(k, a) - 1) : ~ValueAsGeoUnchecked(k, a, i).ok THEN Panic("iter_geo")
  ELSE Ok([i \in 1..ArrayLen(k, a) |-> ValueAsGeoUnchecked(k, a, i - 1).v])

\* ------------------------------------- MultiLineString / MultiPolygon arrays
MultiLineStringArray_try_new(cb, geom_offs, ring_offs, nulls) ==
  IF ~check_nulls(nulls, Len(geom_offs) - 1).ok THEN check_nulls(nulls, Len(geom_offs) - 1)
  ELSE IF Last(ring_offs) # CoordBuffer_len(cb) THEN Err("largest ring offset must match coords length")
  ELSE IF Last(geom_offs) # Len(ring_offs) - 1 THEN Err("largest geometry offset must match ring offsets length")
  ELSE Ok([coords |-> cb, geom_offsets |-> geom_offs, ring_offsets |-> ring_offs, nulls |-> nulls])
MultiPolygonArray_try_new(cb, geom_offs, polygon_offs, ring_offs, nulls) ==
  IF ~check_nulls(nulls, Len(geom_offs) - 1).ok THEN check_nulls(nulls, Len(geom_offs) - 1)
  ELSE IF Last(ring_offs) # CoordBuffer_len(cb) THEN Err("largest ring offset must match coords length")
  ELSE IF Last(polygon_offs) # Len(ring_offs) - 1 THEN Err("largest polygon offset must match ring offsets length")
  ELSE IF Last(geom_offs) # Len(polygon_offs) - 1 THEN Err("largest geometry offset must match polygon offsets length")
  ELSE Ok([coords |-> cb, geom_offsets |-> geom_offs, polygon_offsets |-> polygon_offs, ring_offsets |-> ring_offs, nulls |-> nulls])

MultiLineString_try_new(cb, geom_offs, ring_offs, geom_index) ==
  LET se == compute_start_end_offset(geom_offs, geom_index)
  IN IF ~se.ok THEN se
     ELSE Ok([coords |-> cb, geom_offsets |-> geom_offs, ring_offsets |-> ring_offs, geom_index |-> geom_index,
              start_offset |-> se.v[1], end_offset |-> se.v[2]])
MultiPolygon_try_new(cb, geom_offs, polygon_offs, ring_offs, geom_index) ==
  LET se == compute_start_end_offset(geom_offs, geom_index)
  IN IF ~se.ok THEN se
     ELSE Ok([coords |-> cb, geom_offsets |-> geom_offs, polygon_offsets |-> polygon_offs, ring_offsets |-> ring_offs,
              geom_index |-> geom_index, start_offset |-> se.v[1], end_offset |-> se.v[2]])

MultiLineStringArray_value(a, index) ==
  IF is_null_panics(a, index) THEN Panic("index out of bounds")
  ELSE IF is_null(a, index) THEN Ok(None)
  ELSE IF ~MultiLineString_try_new(a.coords, a.geom_offsets, a.ring_offsets, index).ok THEN MultiLineString_try_new(a.coords, a.geom_offsets, a.ring_offsets, index)
  ELSE Ok(Some(MultiLineString_try_new(a.coords, a.geom_offsets, a.ring_offsets, index).v))
MultiPolygonArray_value(a, index) ==
  IF is_null_panics(a, index) THEN Panic("index out of bounds")
  ELSE IF is_null(a, index) THEN Ok(None)
  ELSE IF ~MultiPolygon_try_new(a.coords, a.geom_offsets, a.polygon_offsets, a.ring_offsets, index).ok THEN MultiPolygon_try_new(a.coords, a.geom_offsets, a.polygon_offsets, a.ring_offsets, index)
  ELSE Ok(Some(MultiPolygon_try_new(a.coords, a.geom_offsets, a.polygon_offsets, a.ring_offsets, index).v))

\* ------------------------------------------------------ MixedGeometryArray
\* GeometryArrayTrait::geo_type_id of each typed array
PointArray_geo_type_id == 1
LineStringArray_geo_type_id == 2
PolygonArray_geo_type_id == 3
MultiPointArray_geo_type_id == 4
MultiLineStringArray_geo_type_id == 5
MultiPolygonArray_geo_type_id == 6

GeometryTypes == {"Point", "LineString", "Polygon", "MultiPoint", "MultiLineString", "MultiPolygon"}
GeometryType_geo_type_id(t) ==
  CASE t = "Point" -> 1
    [] t = "LineString" -> 2
    [] t = "Polygon" -> 3
    [] t = "MultiPoint" -> 4
    [] t = "MultiLineString" -> 5
    [] t = "MultiPolygon" -> 6
GeometryType_find(type_id) ==
  IF \E t \in GeometryTypes : GeometryType_geo_type_id(t) = type_id
  THEN Some(CHOOSE t \in GeometryTypes : GeometryType_geo_type_id(t) = type_id)
  ELSE None

\* a try_new that does not compare the two buffers' lengths
MixedGeometryArray_try_new_no_length_check(type_ids, offsets, nulls, points, line_strings, polygons, multi_points, multi_line_strings, multi_polygons) ==
  IF ~check_nulls(nulls, Len(type_ids)).ok THEN check_nulls(nulls, Len(type_ids))
  ELSE Ok([type_ids |-> type_ids, offsets |-> offsets, nulls |-> nulls,
           points |-> points, line_strings |-> line_strings, polygons |-> polygons,
           multi_points |-> multi_points, multi_line_strings |-> multi_line_strings,
           multi_polygons |-> multi_polygons])
MixedGeometryArray_try_new(type_ids, offsets, nulls, points, line_strings, polygons, multi_points, multi_line_strings, multi_polygons) ==
  IF Len(type_ids) # Len(offsets) THEN Err("type_ids buffer and offsets buffer must have same length")
  ELSE IF ~check_nulls(nulls, Len(type_ids)).ok THEN check_nulls(nulls, Len(type_ids))
  ELSE Ok([type_ids |-> type_ids, offsets |-> offsets, nulls |-> nulls,
           points |-> points, line_strings |-> line_strings, polygons |-> polygons,
           multi_points |-> multi_points, multi_line_strings |-> multi_line_strings,
           multi_polygons |-> multi_polygons])
MixedGeometryArray_len(a) == Len(a.type_ids)

\* point.map(|v| GeometryScalar::Point(v)) behind the ? operator
MapScalar(variant, r) ==
  IF ~r.ok THEN r
  ELSE IF r.v.some THEN Ok(Some([variant |-> variant, v |-> r.v.v]))
  ELSE Ok(None)
\* a missing sub-array read as a null row
MissingArray_as_null(name) == Ok(None)
MissingArray(name) == Err(name \o " array is none")
\* the if-chain of value(): the sub-array of the row's type id, read at offset
MixedDispatch(a, geo_type_id, offset) ==
  IF geo_type_id = PointArray_geo_type_id
  THEN IF a.points.some THEN MapScalar("Point", PointArray_value(a.points.v, offset)) ELSE MissingArray("point")
  ELSE IF geo_type_id = LineStringArray_geo_type_id
  THEN IF a.line_strings.some THEN MapScalar("LineString", LineStringArray_value(a.line_strings.v, offset)) ELSE MissingArray("linestring")
  ELSE IF geo_type_id = PolygonArray_geo_type_id
  THEN IF a.polygons.some THEN MapScalar("Polygon", PolygonArray_value(a.polygons.v, offset)) ELSE MissingArray("polygon")
  ELSE IF geo_type_id = MultiPointArray_geo_type_id
  THEN IF a.multi_points.some THEN MapScalar("MultiPoint", MultiPointArray_value(a.multi_points.v, offset)) ELSE MissingArray("multipoint")
  ELSE IF geo_type_id = MultiLineStringArray_geo_type_id
  THEN IF a.multi_line_strings.some THEN MapScalar("MultiLineString", MultiLineStringArray_value(a.multi_line_strings.v, offset)) ELSE MissingArray("multilinestring")
  ELSE IF geo_type_id = MultiPolygonArray_geo_type_id
  THEN IF a.multi_polygons.some THEN MapScalar("MultiPolygon", MultiPolygonArray_value(a.multi_polygons.v, offset)) ELSE MissingArray("multipolygon")
  ELSE Err("Invalid geometry type id")
\* a value() that reads the sub-array at the row's own index
MixedGeometryArray_value_at_index(a, index) ==
  IF ~Get(a.type_ids, index).some THEN Ok(None)
  ELSE MixedDispatch(a, Get(a.type_ids, index).v, index)
MixedGeometryArray_value(a, index) ==
  IF ~Get(a.type_ids, index).some THEN Ok(None)
  ELSE MixedDispatch(a, Get(a.type_ids, index).v, At(a.offsets, index))

\* ------------------------------------------------------ GeometryArray (enum)
MultiLineStringArray_len(a) == Len(a.geom_offsets) - 1
MultiPolygonArray_len(a) == Len(a.geom_offsets) - 1
ArrayKinds == GeometryTypes \cup {"Mixed"}
GeometryArray_len(k, a) ==
  CASE k = "Point" -> PointArray_len(a)
    [] k = "LineString" -> LineStringArray_len(a)
    [] k = "Polygon" -> PolygonArray_len(a)
    [] k = "MultiPoint" -> MultiPointArray_len(a)
    [] k = "MultiLineString" -> MultiLineStringArray_len(a)
    [] k = "MultiPolygon" -> MultiPolygonArray_len(a)
    [] k = "Mixed" -> MixedGeometryArray_len(a)
GeometryArray_value(k, a, index) ==
  CASE k = "Point" -> MapScalar("Point", PointArray_value(a, index))
    [] k = "LineString" -> MapScalar("LineString", LineStringArray_value(a, index))
    [] k = "Polygon" -> MapScalar("Polygon", PolygonArray_value(a, index))
    [] k = "MultiPoint" -> MapScalar("MultiPoint", MultiPointArray_value(a, index))
    [] k = "MultiLineString" -> MapScalar("MultiLineString", MultiLineStringArray_value(a, index))
    [] k = "MultiPolygon" -> MapScalar("MultiPolygon", MultiPolygonArray_value(a, index))
    [] k = "Mixed" -> MixedGeometryArray_value(a, index)

\* ------------------------------------------------------- WKB dialect codec
Dialects == {"Wkb", "Ewkb", "Geopackage", "MySQL", "SpatiaLite"}
\* the largest value of the u8 a tag byte is
U8Max == 255
\* a wkb_type_id that gives MySQL the id of GeoPackage
wkb_type_id_mysql_as_geopackage(dialect) ==
  CASE dialect = "Wkb" -> 1
    [] dialect = "Ewkb" -> 2
    [] dialect = "Geopackage" -> 3
    [] dialect = "MySQL" -> 3
    [] dialect = "SpatiaLite" -> 5
wkb_type_id(dialect) ==
  CASE dialect = "Wkb" -> 1
    [] dialect = "Ewkb" -> 2
    [] dialect = "Geopackage" -> 3
    [] dialect = "MySQL" -> 4
    [] dialect = "SpatiaLite" -> 5
\* a decode that takes every unknown byte for plain WKB
decode_wkb_dialect_default_wkb(type_id) ==
  IF type_id = wkb_type_id("Ewkb") THEN Ok("Ewkb")
  ELSE IF type_id = wkb_type_id("Geopackage") THEN Ok("Geopackage")
  ELSE IF type_id = wkb_type_id("MySQL") THEN Ok("MySQL")
  ELSE IF type_id = wkb_type_id("SpatiaLite") THEN Ok("SpatiaLite")
  ELSE Ok("Wkb")
decode_wkb_dialect(type_id) ==
  IF type_id = wkb_type_id("Wkb") THEN Ok("Wkb")
  ELSE IF type_id = wkb_type_id("Ewkb") THEN Ok("Ewkb")
  ELSE IF type_id = wkb_type_id("Geopackage") THEN Ok("Geopackage")
  ELSE IF type_id = wkb_type_id("MySQL") THEN Ok("MySQL")
  ELSE IF type_id = wkb_type_id("SpatiaLite") THEN Ok("SpatiaLite")
  ELSE Err("Cannot decode WkbDialect")

\* The geozero codec, reduced to points: a payload is a byte-order byte, a
\* geometry-type byte and the two coordinates; the GeoPackage, MySQL and
\* SpatiaLite dialects put their own header byte in front of it.
WkbGeometries == {[type |-> "Point", g |-> p] : p \in GeoPoints}
WkbHeader(dialect) == IF dialect \in {"Wkb", "Ewkb"} THEN <<>> ELSE <<100 + wkb_type_id(dialect)>>
to_wkb_dialect(geom, dialect) == WkbHeader(dialect) \o <<1, 1, geom.g[1], geom.g[2]>>
from_wkb(wkb, dialect) ==
  IF \E g \in WkbGeometries : to_wkb_dialect(g, dialect) = wkb
  THEN Ok(CHOOSE g \in WkbGeometries : to_wkb_dialect(g, dialect) = wkb)
  ELSE Err("Failed to parse wkb")
check_wkb(wkb, dialect) == IF from_wkb(wkb, dialect).ok THEN Ok(TRUE) ELSE Err("Failed to parse wkb")

\* --------------------------------------------------- WKB GeometryArrayBuilder
\* a constructor that leaves the first offset at the start of the byte store
WkbGeometryArrayBuilder_new_offset_zero(dialect) ==
  [dialect |-> dialect, value_builder |-> <<wkb_type_id(dialect)>>, offsets_builder |-> <<0>>, null_buffer_builder |-> NullBufferBuilder_new]
\* a constructor that stores no dialect tag
WkbGeometryArrayBuilder_new_no_tag(dialect) ==
  [dialect |-> dialect, value_builder |-> <<>>, offsets_builder |-> <<0>>, null_buffer_builder |-> NullBufferBuilder_new]
WkbGeometryArrayBuilder_new(dialect) ==
  LET value_builder == <<wkb_type_id(dialect)>>
  IN [dialect |-> dialect,
      value_builder |-> value_builder,
      offsets_builder |-> <<Len(value_builder)>>,
      null_buffer_builder |-> NullBufferBuilder_new]
next_offset(b) == Len(b.value_builder)
WkbGeometryArrayBuilder_append_null(b) ==
  LET b1 == [b EXCEPT !.null_buffer_builder = NullBufferBuilder_append_null(b.null_buffer_builder)]
  IN [b1 EXCEPT !.offsets_builder = Append(b1.offsets_builder, next_offset(b1))]
internal_append_wkb(b, wkb) ==
  LET b1 == [b EXCEPT !.value_builder = b.value_builder \o wkb,
                      !.null_buffer_builder = NullBufferBuilder_append(b.null_buffer_builder, TRUE)]
  IN [b1 EXCEPT !.offsets_builder = Append(b1.offsets_builder, next_offset(b1))]
\* append_wkb and append_geo_geometry: the call's result and the builder after it
\* an append_wkb that stores the bytes before it validates them
WkbGeometryArrayBuilder_append_wkb_store_first(b, wkb) ==
  IF wkb.some
  THEN [res |-> check_wkb(wkb.v, b.dialect), b |-> internal_append_wkb(b, wkb.v)]
  ELSE [res |-> Ok(TRUE), b |-> WkbGeometryArrayBuilder_append_null(b)]
WkbGeometryArrayBuilder_append_wkb(b, wkb) ==
  IF wkb.some
  THEN IF ~check_wkb(wkb.v, b.dialect).ok
       THEN [res |-> check_wkb(wkb.v, b.dialect), b |-> b]
       ELSE [res |-> Ok(TRUE), b |-> internal_append_wkb(b, wkb.v)]
  ELSE [res |-> Ok(TRUE), b |-> WkbGeometryArrayBuilder_append_null(b)]
WkbGeometryArrayBuilder_append_geo_geometry(b, geom) ==
  IF geom.some
  THEN [res |-> Ok(TRUE), b |-> internal_append_wkb(b, to_wkb_dialect(geom.v, b.dialect))]
  ELSE [res |-> Ok(TRUE), b |-> WkbGeometryArrayBuilder_append_null(b)]
\* GenericByteArray::new panics unless the offsets are a valid OffsetBuffer
\* that ends inside the values and the null buffer has one bit per row
WkbGeometryArrayBuilder_build(b) ==
  LET nulls == NullBufferBuilder_finish_cloned(b.null_buffer_builder)
  IN IF ~OffsetBuffer_new_ok(b.offsets_builder) THEN Panic("offsets")
     ELSE IF Last(b.offsets_builder) > Len(b.value_builder) THEN Panic("offsets past the values")
     ELSE IF nulls.some /\ Len(nulls.v) # Len(b.offsets_builder) - 1 THEN Panic("nulls")
     ELSE Ok([value_offsets |-> b.offsets_builder, value_data |-> b.value_builder, nulls |-> nulls])

\* ------------------------------------------------------ WKB GeometryArray
WkbGeometryArray_dialect(a) ==
  IF Get(a.value_data, 0).some THEN decode_wkb_dialect(Get(a.value_data, 0).v)
  ELSE Err("Cannot get dialect as data is empty")
WkbGeometryArray_geom_len(a) == Len(a.value_offsets) - 1
\* GenericByteArray::value(i): the bytes between offsets i and i+1
GenericByteArray_value(a, i) == SubSeq(a.value_data, At(a.value_offsets, i) + 1, At(a.value_offsets, i + 1))
WkbGeometryArray_wkb(a, index) ==
  IF index >= WkbGeometryArray_geom_len(a) \/ is_null(a, index) THEN None
  ELSE Some(GenericByteArray_value(a, index))
\* a geo_value that reports a row without bytes as an error
WkbGeometryArray_geo_value_none_is_error(a, index) ==
  LET wkb == WkbGeometryArray_wkb(a, index)
  IN IF wkb.some
     THEN IF ~WkbGeometryArray_dialect(a).ok THEN WkbGeometryArray_dialect(a)
          ELSE IF ~from_wkb(wkb.v, WkbGeometryArray_dialect(a).v).ok THEN from_wkb(wkb.v, WkbGeometryArray_dialect(a).v)
          ELSE Ok(Some(from_wkb(wkb.v, WkbGeometryArray_dialect(a).v).v))
     ELSE Err("no wkb at index")
WkbGeometryArray_geo_value(a, index) ==
  LET wkb == WkbGeometryArray_wkb(a, index)
  IN IF wkb.some
     THEN IF ~WkbGeometryArray_dialect(a).ok THEN WkbGeometryArray_dialect(a)
          ELSE IF ~from_wkb(wkb.v, WkbGeometryArray_dialect(a).v).ok THEN from_wkb(wkb.v, WkbGeometryArray_dialect(a).v)
          ELSE Ok(Some(from_wkb(wkb.v, WkbGeometryArray_dialect(a).v).v))
     ELSE Ok(None)

\* ------------------------------------------------------------------- state
\* kind      which typed builder this run constructs
\* builder   the builder's fields (coords, geom_offsets, ring_offsets, nulls)
\* pushed    the rows pushed so far, as the caller handed them over
\* arr       the result of build(): Ok(array) or a panic
\* pc        "building" until build() is called
VARIABLES kind, builder, pushed, arr, pc
\* the WKB blob builder, the rows appended to it and the array it builds
\* wkb_last is the result of the last append call
VARIABLES wkb_builder, wkb_pushed, wkb_last, wkb_arr, wkb_pc
\* one call of a constructor or accessor: its arguments and its result
VARIABLES inp, out

builderVars == <<kind, builder, pushed, arr, pc>>
wkbVars == <<wkb_builder, wkb_pushed, wkb_last, wkb_arr, wkb_pc>>
callVars == <<inp, out>>
vars == <<builderVars, wkbVars, callVars>>

NotBuilt == Err("not built")
NotCalled == Err("not called")
BuilderIdle == kind = "none" /\ builder = <<>> /\ pushed = <<>> /\ arr = NotBuilt /\ pc = "idle"
WkbIdle == wkb_builder = <<>> /\ wkb_pushed = <<>> /\ wkb_last = NotCalled /\ wkb_arr = NotBuilt /\ wkb_pc = "idle"
CallIdle == inp = <<>> /\ out = NotCalled

BuilderNew(k) ==
  CASE k = "Point" -> PointArrayBuilder_new
    [] k = "LineString" -> LineStringArrayBuilder_new
    [] k = "MultiPoint" -> MultiPointArrayBuilder_new
    [] k = "Polygon" -> PolygonArrayBuilder_new

Init ==
  /\ kind \in Kinds
  /\ builder = BuilderNew(kind)
  /\ pushed = <<>>
  /\ arr = NotBuilt
  /\ pc = "building"
  /\ WkbIdle
  /\ CallIdle

OptionOf(S) == {Some(x) : x \in S} \cup {None}
CanPush(k) == kind = k /\ pc = "building" /\ Len(pushed) < MaxRows
Built(r) == /\ arr' = r
            /\ pc' = "built"
            /\ UNCHANGED <<kind, builder, pushed, wkbVars, callVars>>

Point_push_geo_point ==
  /\ CanPush("Point")
  /\ \E value \in OptionOf(GeoPoints) :
       /\ builder' = PointArrayBuilder_push_geo_point(builder, value)
       /\ pushed' = Append(pushed, value)
  /\ UNCHANGED <<kind, arr, pc, wkbVars, callVars>>
Point_push_null ==
  /\ CanPush("Point")
  /\ builder' = PointArrayBuilder_push_null(builder)
  /\ pushed' = Append(pushed, None)
  /\ UNCHANGED <<kind, arr, pc, wkbVars, callVars>>
Point_build ==
  /\ kind = "Point" /\ pc = "building"
  /\ Built(PointArrayBuilder_build(builder))

LineString_push_geo_line_string ==
  /\ CanPush("LineString")
  /\ \E value \in OptionOf(GeoLineStrings) :
       /\ builder' = LineStringArrayBuilder_push_geo_line_string(builder, value)
       /\ pushed' = Append(pushed, value)
  /\ UNCHANGED <<kind, arr, pc, wkbVars, callVars>>
LineString_push_null ==
  /\ CanPush("LineString")
  /\ builder' = LineStringArrayBuilder_push_null(builder)
  /\ pushed' = Append(pushed, None)
  /\ UNCHANGED <<kind, arr, pc, wkbVars, callVars>>
LineString_build ==
  /\ kind = "LineString" /\ pc = "building"
  /\ Built(LineStringArrayBuilder_build(builder))

MultiPoint_push_geo_multipoint ==
  /\ CanPush("MultiPoint")
  /\ \E value \in OptionOf(GeoMultiPoints) :
       /\ builder' = MultiPointArrayBuilder_push_geo_multipoint(builder, value)
       /\ pushed' = Append(pushed, value)
  /\ UNCHANGED <<kind, arr, pc, wkbVars, callVars>>
MultiPoint_push_null ==
  /\ CanPush("MultiPoint")
  /\ builder' = MultiPointArrayBuilder_push_null(builder)
  /\ pushed' = Append(pushed, None)
  /\ UNCHANGED <<kind, arr, pc, wkbVars, callVars>>
MultiPoint_build ==
  /\ kind = "MultiPoint" /\ pc = "building"
  /\ Built(MultiPointArrayBuilder_build(builder))

Polygon_push_geo_polygon ==
  /\ CanPush("Polygon")
  /\ \E value \in OptionOf(GeoPolygons) :
       /\ builder' = PolygonArrayBuilder_push_geo_polygon(builder, value)
       /\ pushed' = Append(pushed, value)
  /\ UNCHANGED <<kind, arr, pc, wkbVars, callVars>>
Polygon_push_null ==
  /\ CanPush("Polygon")
  /\ builder' = PolygonArrayBuilder_push_null(builder)
  /\ pushed' = Append(pushed, None)
  /\ UNCHANGED <<kind, arr, pc, wkbVars, callVars>>
Polygon_build ==
  /\ kind = "Polygon" /\ pc = "building"
  /\ Built(PolygonArrayBuilder_build(builder))

Next ==
  \/ Point_push_geo_point
  \/ Point_push_null
  \/ Point_build
  \/ LineString_push_geo_line_string
  \/ LineString_push_null
  \/ LineString_build
  \/ MultiPoint_push_geo_multipoint
  \/ MultiPoint_push_null
  \/ MultiPoint_build
  \/ Polygon_push_geo_polygon
  \/ Polygon_push_null
  \/ Polygon_build

Spec == Init /\ [][Next]_vars

\* ------------------------------------------- the WKB builder's state machine
\* the byte strings a caller may hand to append_wkb: every well-formed
\* payload of the builder's dialect and some that are not
WkbInputs(dialect) == {to_wkb_dialect(g, dialect) : g \in WkbGeometries} \cup {<<>>, <<1, 1, 0>>, <<7, 1, 0, 1>>}

InitWkb ==
  /\ \E d \in Dialects : wkb_builder = WkbGeometryArrayBuilder_new(d)
  /\ wkb_pushed = <<>>
  /\ wkb_last = NotCalled
  /\ wkb_arr = NotBuilt
  /\ wkb_pc = "building"
  /\ BuilderIdle
  /\ CallIdle

WkbCanAppend == wkb_pc = "building" /\ Len(wkb_pushed) < MaxRows
\* the rows appended so far: the payload of a present row, None of a null one
WkbAppended(call, row) ==
  /\ wkb_builder' = call.b
  /\ wkb_last' = call.res
  /\ wkb_pushed' = IF call.res.ok THEN Append(wkb_pushed, row) ELSE wkb_pushed
  /\ UNCHANGED <<wkb_arr, wkb_pc, builderVars, out>>

Wkb_append_wkb ==
  /\ WkbCanAppend
  /\ \E wkb \in OptionOf(WkbInputs(wkb_builder.dialect)) :
       /\ inp' = [fn |-> "append_wkb", wkb |-> wkb]
       /\ WkbAppended(WkbGeometryArrayBuilder_append_wkb(wkb_builder, wkb), wkb)
Wkb_append_geo_geometry ==
  /\ WkbCanAppend
  /\ \E geom \in OptionOf(WkbGeometries) :
       /\ inp' = [fn |-> "append_geo_geometry", geom |-> geom]
       /\ WkbAppended(WkbGeometryArrayBuilder_append_geo_geometry(wkb_builder, geom),
                      IF geom.some THEN Some(to_wkb_dialect(geom.v, wkb_builder.dialect)) ELSE None)
Wkb_append_null ==
  /\ WkbCanAppend
  /\ inp' = [fn |-> "append_null"]
  /\ WkbAppended([res |-> Ok(TRUE), b |-> WkbGeometryArrayBuilder_append_null(wkb_builder)], None)
Wkb_build ==
  /\ wkb_pc = "building"
  /\ wkb_arr' = WkbGeometryArrayBuilder_build(wkb_builder)
  /\ wkb_pc' = "built"
  /\ inp' = [fn |-> "build"]
  /\ UNCHANGED <<wkb_builder, wkb_pushed, wkb_last, builderVars, out>>
\* one read of the built array, at a row or past the last one: wkb(index) and
\* geo_value(index)
Wkb_read ==
  /\ wkb_pc = "built"
  /\ wkb_arr.ok
  /\ out = NotCalled
  /\ \E index \in 0..(WkbGeometryArray_geom_len(wkb_arr.v) + MaxLen) :
       /\ inp' = [fn |-> "geo_value", index |-> index]
       /\ out' = [wkb |-> WkbGeometryArray_wkb(wkb_arr.v, index),
                  geo_value |-> WkbGeometryArray_geo_value(wkb_arr.v, index)]
  /\ UNCHANGED <<wkbVars, builderVars>>

NextWkb ==
  \/ Wkb_append_wkb
  \/ Wkb_append_geo_geometry
  \/ Wkb_append_null
  \/ Wkb_build
  \/ Wkb_read

SpecWkb == InitWkb /\ [][NextWkb]_vars

\* --------------------------------------------- one call of PolygonArray::try_new
\* buffers a caller can hand to try_new: an OffsetBuffer is never empty,
\* never negative and never decreasing; the null buffer may have any length
OffsetBuffers == {o \in UNION {[1..n -> 0..MaxLen] : n \in 1..(MaxRows + 1)} : OffsetBuffer_new_ok(o)}
CoordBuffers == {CoordBuffer_try_new(PushGeoCoords(<<>>, [i \in 1..n |-> GeoCoord(0, i)])).v : n \in 0..MaxLen}
NullBuffers == {None} \cup {Some([i \in 1..n |-> i # 1]) : n \in 0..(MaxRows + 1)}

InitPolygonTryNew ==
  /\ BuilderIdle
  /\ WkbIdle
  /\ \E cb \in CoordBuffers, g \in OffsetBuffers, r \in OffsetBuffers, nb \in NullBuffers :
        inp = [fn |-> "PolygonArray::try_new", coords |-> cb, geom_offsets |-> g, ring_offsets |-> r, nulls |-> nb]
  /\ out = NotCalled

Call_PolygonArray_try_new ==
  /\ inp.fn = "PolygonArray::try_new"
  /\ out = NotCalled
  /\ out' = PolygonArray_try_new(inp.coords, inp.geom_offsets, inp.ring_offsets, inp.nulls)
  /\ UNCHANGED <<inp, builderVars, wkbVars>>

NextPolygonTryNew == Call_PolygonArray_try_new
SpecPolygonTryNew == InitPolygonTryNew /\ [][NextPolygonTryNew]_vars

\* ------------------------------------------- one call of MixedGeometryArray::value
\* the six sub-arrays a Mixed array is put together from: two rows each, the
\* first a geometry over the two coordinates, the second empty and, when the
\* sub-array carries a null buffer, null
SampleCoords == CoordBuffer_try_new(<<0, 1, 1, 2>>).v
SampleNulls(with_nulls) == IF with_nulls THEN Some(<<TRUE, FALSE>>) ELSE None
SamplePoints(with_nulls) == PointArray_try_new(SampleCoords, SampleNulls(with_nulls)).v
SampleLineStrings(with_nulls) == LineStringArray_try_new(SampleCoords, <<0, 2, 2>>, SampleNulls(with_nulls)).v
SamplePolygons(with_nulls) == PolygonArray_try_new(SampleCoords, <<0, 1, 1>>, <<0, 2>>, SampleNulls(with_nulls)).v
SampleMultiPoints(with_nulls) == MultiPointArray_try_new(SampleCoords, <<0, 2, 2>>, SampleNulls(with_nulls)).v
SampleMultiLineStrings(with_nulls) == MultiLineStringArray_try_new(SampleCoords, <<0, 1, 1>>, <<0, 2>>, SampleNulls(with_nulls)).v
SampleMultiPolygons(with_nulls) == MultiPolygonArray_try_new(SampleCoords, <<0, 1, 1>>, <<0, 1>>, <<0, 2>>, SampleNulls(with_nulls)).v

\* type_ids is a buffer of i8: the six known ids and some that are none of them
TypeIds == (PointArray_geo_type_id - 2)..(MultiPolygonArray_geo_type_id + 1)
\* which sub-arrays the Mixed array holds: all, all but one, or none
Presences == {GeometryTypes, {}} \cup {GeometryTypes \ {t} : t \in GeometryTypes}
OptionIf(present, x) == IF present THEN Some(x) ELSE None
InitMixed ==
  /\ BuilderIdle
  /\ WkbIdle
  /\ \E tids \in UNION {[1..n -> TypeIds] : n \in 1..MaxLen}, pr \in Presences, wn \in BOOLEAN :
       \E offs \in [1..Len(tids) -> 0..MaxLen], index \in 0..Len(tids) :
          inp = [fn |-> "MixedGeometryArray::value",
                 array |-> MixedGeometryArray_try_new(tids, offs, None,
                              OptionIf("Point" \in pr, SamplePoints(wn)),
                              OptionIf("LineString" \in pr, SampleLineStrings(wn)),
                              OptionIf("Polygon" \in pr, SamplePolygons(wn)),
                              OptionIf("MultiPoint" \in pr, SampleMultiPoints(wn)),
                              OptionIf("MultiLineString" \in pr, SampleMultiLineStrings(wn)),
                              OptionIf("MultiPolygon" \in pr, SampleMultiPolygons(wn))).v,
                 index |-> index]
  /\ out = NotCalled

Call_MixedGeometryArray_value ==
  /\ inp.fn = "MixedGeometryArray::value"
  /\ out = NotCalled
  /\ out' = MixedGeometryArray_value(inp.array, inp.index)
  /\ UNCHANGED <<inp, builderVars, wkbVars>>

NextMixed == Call_MixedGeometryArray_value
SpecMixed == InitMixed /\ [][NextMixed]_vars

\* ------------------------------------ one call of MixedGeometryArray::try_new
\* the buffers handed over: type ids and offsets of any two lengths, a null
\* buffer of any length or none, and any of the sub-arrays left out
InitMixedTryNew ==
  /\ BuilderIdle
  /\ WkbIdle
  /\ \E tids \in UNION {[1..n -> TypeIds] : n \in 0..MaxLen}, m \in 0..MaxLen, pr \in Presences :
       \E nulls \in {None} \cup {Some([i \in 1..n |-> i # 1]) : n \in 0..(MaxLen + 1)} :
          inp = [fn |-> "MixedGeometryArray::try_new", type_ids |-> tids, offsets |-> [i \in 1..m |-> 0],
                 nulls |-> nulls, present |-> pr]
  /\ out = NotCalled

Call_MixedGeometryArray_try_new ==
  /\ inp.fn = "MixedGeometryArray::try_new"
  /\ out = NotCalled
  /\ out' = MixedGeometryArray_try_new(inp.type_ids, inp.offsets, inp.nulls,
               OptionIf("Point" \in inp.present, SamplePoints(FALSE)),
               OptionIf("LineString" \in inp.present, SampleLineStrings(FALSE)),
               OptionIf("Polygon" \in inp.present, SamplePolygons(FALSE)),
               OptionIf("MultiPoint" \in inp.present, SampleMultiPoints(FALSE)),
               OptionIf("MultiLineString" \in inp.present, SampleMultiLineStrings(FALSE)),
               OptionIf("MultiPolygon" \in inp.present, SampleMultiPolygons(FALSE)))
  /\ UNCHANGED <<inp, builderVars, wkbVars>>

NextMixedTryNew == Call_MixedGeometryArray_try_new
SpecMixedTryNew == InitMixedTryNew /\ [][NextMixedTryNew]_vars

\* ------------------------------------------------ one call of value(index)
\* the array read: one of the six sample typed arrays, or a Mixed array over
\* all six of them with a validity buffer of its own; the index may lie past
\* the last row
SampleArray(k, with_nulls) ==
  CASE k = "Point" -> SamplePoints(with_nulls)
    [] k = "LineString" -> SampleLineStrings(with_nulls)
    [] k = "Polygon" -> SamplePolygons(with_nulls)
    [] k = "MultiPoint" -> SampleMultiPoints(with_nulls)
    [] k = "MultiLineString" -> SampleMultiLineStrings(with_nulls)
    [] k = "MultiPolygon" -> SampleMultiPolygons(with_nulls)
OptionalNullBuffers(n) == {None} \cup {Some(b) : b \in [1..n -> BOOLEAN]}

InitValue ==
  /\ BuilderIdle
  /\ WkbIdle
  /\ \/ \E k \in GeometryTypes, wn \in BOOLEAN, index \in 0..(MaxLen + 1) :
          inp = [fn |-> "GeometryArray::value", kind |-> k, array |-> SampleArray(k, wn), index |-> index]
     \/ \E n \in 1..MixedRows, wn \in BOOLEAN :
          \E tids \in [1..n -> TypeIds], offs \in [1..n -> 0..1], nulls \in OptionalNullBuffers(n), index \in 0..n :
             inp = [fn |-> "GeometryArray::value", kind |-> "Mixed",
                    array |-> MixedGeometryArray_try_new(tids, offs, nulls,
                                 Some(SamplePoints(wn)), Some(SampleLineStrings(wn)), Some(SamplePolygons(wn)),
                                 Some(SampleMultiPoints(wn)), Some(SampleMultiLineStrings(wn)),
                                 Some(SampleMultiPolygons(wn))).v,
                    index |-> index]
  /\ out = NotCalled

Call_GeometryArray_value ==
  /\ inp.fn = "GeometryArray::value"
  /\ out = NotCalled
  /\ out' = GeometryArray_value(inp.kind, inp.array, inp.index)
  /\ UNCHANGED <<inp, builderVars, wkbVars>>

NextValue == Call_GeometryArray_value
SpecValue == InitValue /\ [][NextValue]_vars

\* ------------------------------------------- sub-accessors of the views
\* usize subtraction: a debug build panics on underflow, a release build
\* wraps. The wrap is taken at 2^30, which (like 2^64) is larger than every
\* index and length that occurs here; a count of 2^29 or more cannot be
\* collected into a Vec.
usize_sub(a, b) == IF a >= b THEN {Ok(a - b)} ELSE {Panic("attempt to subtract with overflow"), Ok((a - b) % (2^30))}
capacity_overflow(n) == n >= 2^29

\* the expect() around a view made for a sub-accessor
Expect(r) == IF r.ok THEN Ok(Some(r.v)) ELSE Panic("geom_index has been checked")
LineString_coord(ls, i) ==
  IF i >= LineString_num_coords(ls) THEN Ok(None) ELSE Expect(Point_try_new(ls.coords, ls.start_offset + i))
MultiPoint_point(mp, i) ==
  IF i >= MultiPoint_num_points(mp) THEN Ok(None) ELSE Expect(Point_try_new(mp.coords, mp.start_offset + i))
Polygon_interior_checked(pg, i) ==
  IF ~Polygon_interior(pg, i).some THEN Ok(None) ELSE Expect(Polygon_interior(pg, i).v)

MultiLineString_num_lines(mls) == usize_sub(mls.start_offset, mls.end_offset)
MultiLineString_line(mls, i) ==
  {IF ~n.ok THEN n
   ELSE IF i >= n.v THEN Ok(None)
   ELSE Expect(LineString_try_new(mls.coords, mls.ring_offsets, mls.start_offset + 1)) : n \in MultiLineString_num_lines(mls)}
\* lines() collected by to_geo: every line(i), i < num_lines, unwrapped
MultiLineString_to_geo(mls) ==
  {IF ~n.ok THEN n
   ELSE IF capacity_overflow(n.v) THEN Panic("capacity overflow")
   ELSE IF \E i \in 0..(n.v - 1) : \E l \in MultiLineString_line(mls, i) : ~l.ok \/ ~LineString_coords_ok(l.v.v)
        THEN Panic("geom_index has been checked")
   ELSE Ok([type |-> "MultiLineString",
            g |-> [k \in 1..n.v |-> LineString_into_geo((CHOOSE l \in MultiLineString_line(mls, k - 1) : l.ok).v.v)]])
     : n \in MultiLineString_num_lines(mls)}

MultiPolygon_num_polygons(mp) == usize_sub(mp.start_offset, mp.end_offset)
MultiPolygon_polygon(mp, i) ==
  {IF ~n.ok THEN n
   ELSE IF i >= n.v THEN Ok(None)
   ELSE Expect(Polygon_try_new(mp.coords, mp.polygon_offsets, mp.ring_offsets, mp.start_offset + i)) : n \in MultiPolygon_num_polygons(mp)}

\* ------------------------------------------------- calls on a scalar view
\* a view of one of the five shapes with an offset window, made by the
\* shape's try_new over a geometry offset buffer a caller chose; the buffers
\* below it hold one element per index, so that index k of a level is element
\* k alone
ViewTypes == {"LineString", "MultiPoint", "Polygon", "MultiLineString", "MultiPolygon"}
UnitOffsets == [i \in 1..(MaxLen + 2) |-> i - 1]
UnitCoords == CoordBuffer_try_new(PushGeoCoords(<<>>, [i \in 1..(MaxLen + 1) |-> GeoCoord(0, i)])).v
View_try_new(t, geom_offs, geom_index) ==
  CASE t = "LineString" -> LineString_try_new(UnitCoords, geom_offs, geom_index)
    [] t = "MultiPoint" -> MultiPoint_try_new(UnitCoords, geom_offs, geom_index)
    [] t = "Polygon" -> Polygon_try_new(UnitCoords, geom_offs, UnitOffsets, geom_index)
    [] t = "MultiLineString" -> MultiLineString_try_new(UnitCoords, geom_offs, UnitOffsets, geom_index)
    [] t = "MultiPolygon" -> MultiPolygon_try_new(UnitCoords, geom_offs, UnitOffsets, UnitOffsets, geom_index)
\* num_coords, num_points, num_interiors, num_lines, num_polygons
View_count(t, v) ==
  CASE t = "LineString" -> {Ok(LineString_num_coords(v))}
    [] t = "MultiPoint" -> {Ok(MultiPoint_num_points(v))}
    [] t = "Polygon" -> {Ok(Polygon_num_interiors(v))}
    [] t = "MultiLineString" -> MultiLineString_num_lines(v)
    [] t = "MultiPolygon" -> MultiPolygon_num_polygons(v)
\* coord(i), point(i), interior(i), line(i), polygon(i)
View_sub(t, v, i) ==
  CASE t = "LineString" -> {LineString_coord(v, i)}
    [] t = "MultiPoint" -> {MultiPoint_point(v, i)}
    [] t = "Polygon" -> {Polygon_interior_checked(v, i)}
    [] t = "MultiLineString" -> MultiLineString_line(v, i)
    [] t = "MultiPolygon" -> MultiPolygon_polygon(v, i)

InitView ==
  /\ BuilderIdle
  /\ WkbIdle
  /\ \E t \in ViewTypes, geom_offs \in OffsetBuffers, geom_index \in 0..MaxRows :
       inp = [fn |-> "view", type |-> t, geom_offsets |-> geom_offs, geom_index |-> geom_index,
              view |-> View_try_new(t, geom_offs, geom_index)]
  /\ out = NotCalled

ViewMade == inp.fn = "view" /\ inp.view.ok /\ out = NotCalled
Call_View_count ==
  /\ ViewMade
  /\ \E r \in View_count(inp.type, inp.view.v) : out' = [fn |-> "count", r |-> r]
  /\ UNCHANGED <<inp, builderVars, wkbVars>>
Call_View_sub ==
  /\ ViewMade
  /\ \E i \in 0..(MaxLen + 1) : \E r \in View_sub(inp.type, inp.view.v, i) : out' = [fn |-> "sub", i |-> i, r |-> r]
  /\ UNCHANGED <<inp, builderVars, wkbVars>>
Call_Polygon_exterior ==
  /\ ViewMade /\ inp.type = "Polygon"
  /\ out' = [fn |-> "exterior", r |-> Expect(Polygon_exterior(inp.view.v))]
  /\ UNCHANGED <<inp, builderVars, wkbVars>>
Call_MultiLineString_to_geo ==
  /\ ViewMade /\ inp.type = "MultiLineString"
  /\ \E r \in MultiLineString_to_geo(inp.view.v) : out' = [fn |-> "to_geo", r |-> r]
  /\ UNCHANGED <<inp, builderVars, wkbVars>>

NextView ==
  \/ Call_View_count
  \/ Call_View_sub
  \/ Call_Polygon_exterior
  \/ Call_MultiLineString_to_geo
SpecView == InitView /\ [][NextView]_vars

\* ------------------------------------- GeometryArrayBuilder (array/mod.rs)
\* the enum over the typed builders: new makes the Point variant only, every
\* other array type is todo!()
Geometries == WkbGeometries \cup {[type |-> "LineString", g |-> l] : l \in GeoLineStrings}
GeometryArrayBuilder_new == [variant |-> "Point", builder |-> PointArrayBuilder_new]
GeometryArrayBuilder_push_null(b) ==
  IF b.variant = "Point"
  THEN [b EXCEPT !.builder = PointArrayBuilder_push_null(b.builder)]
  ELSE [b EXCEPT !.builder = LineStringArrayBuilder_push_null(b.builder)]
\* a push_geo_geometry that stores a null row before it rejects the geometry
GeometryArrayBuilder_push_geo_geometry_null_on_reject(b, geometry) ==
  IF ~geometry.some THEN [res |-> Ok(<<>>), b |-> GeometryArrayBuilder_push_null(b)]
  ELSE IF b.variant = "Point"
  THEN IF geometry.v.type = "Point"
       THEN [res |-> Ok(<<>>), b |-> [b EXCEPT !.builder = PointArrayBuilder_push_geo_point(b.builder, Some(geometry.v.g))]]
       ELSE [res |-> Err("geometry is not point"), b |-> GeometryArrayBuilder_push_null(b)]
  ELSE [res |-> Panic("not yet implemented"), b |-> b]
\* the result and the builder after the call
GeometryArrayBuilder_push_geo_geometry(b, geometry) ==
  IF ~geometry.some THEN [res |-> Ok(<<>>), b |-> GeometryArrayBuilder_push_null(b)]
  ELSE IF b.variant = "Point"
  THEN IF geometry.v.type = "Point"
       THEN [res |-> Ok(<<>>), b |-> [b EXCEPT !.builder = PointArrayBuilder_push_geo_point(b.builder, Some(geometry.v.g))]]
       ELSE [res |-> Err("geometry is not point"), b |-> b]
  ELSE [res |-> Panic("not yet implemented"), b |-> b]

\* build_geometry_array_from_geo for a Point array type: the loop over data
RECURSIVE FromGeoLoop(_, _)
FromGeoLoop(b, data) ==
  IF data = <<>> THEN Ok(b)
  ELSE IF ~Head(data).some THEN FromGeoLoop(PointArrayBuilder_push_null(b), Tail(data))
  ELSE IF Head(data).v.type = "Point" THEN FromGeoLoop(PointArrayBuilder_push_geo_point(b, Some(Head(data).v.g)), Tail(data))
  ELSE Err("geo::Geometry is not point")
build_geometry_array_from_geo(data) ==
  LET filled == FromGeoLoop(PointArrayBuilder_new, data)
  IN IF ~filled.ok THEN filled ELSE PointArrayBuilder_build(filled.v)

\* a GeometryArrayBuilder::Point is handed geometries one at a time; then
\* build_geometry_array_from_geo is given the same geometries as one vector
InitGeometryBuilder ==
  /\ kind = "GeometryArrayBuilder"
  /\ builder = GeometryArrayBuilder_new
  /\ pushed = <<>>
  /\ arr = NotBuilt
  /\ pc = "building"
  /\ WkbIdle
  /\ CallIdle

GeometryBuilder_push_geo_geometry ==
  /\ CanPush("GeometryArrayBuilder")
  /\ \E geometry \in OptionOf(Geometries) :
       /\ inp' = [fn |-> "push_geo_geometry", geometry |-> geometry]
       /\ out' = GeometryArrayBuilder_push_geo_geometry(builder, geometry).res
       /\ builder' = GeometryArrayBuilder_push_geo_geometry(builder, geometry).b
       /\ pushed' = Append(pushed, geometry)
  /\ UNCHANGED <<kind, arr, pc, wkbVars>>
GeometryBuilder_push_null ==
  /\ CanPush("GeometryArrayBuilder")
  /\ inp' = [fn |-> "push_null"]
  /\ out' = Ok(<<>>)
  /\ builder' = GeometryArrayBuilder_push_null(builder)
  /\ pushed' = Append(pushed, None)
  /\ UNCHANGED <<kind, arr, pc, wkbVars>>
Call_build_geometry_array_from_geo ==
  /\ kind = "GeometryArrayBuilder" /\ pc = "building"
  /\ inp' = [fn |-> "build_geometry_array_from_geo", data |-> pushed]
  /\ arr' = build_geometry_array_from_geo(pushed)
  /\ pc' = "built"
  /\ UNCHANGED <<kind, builder, pushed, out, wkbVars>>

NextGeometryBuilder ==
  \/ GeometryBuilder_push_geo_geometry
  \/ GeometryBuilder_push_null
  \/ Call_build_geometry_array_from_geo
SpecGeometryBuilder == InitGeometryBuilder /\ [][NextGeometryBuilder]_vars

\* ----------------------------------------------- the ways to a CoordBuffer
\* try_new on a raw float buffer of any length; a CoordBufferBuilder filled by
\* push_xy and push_geo_coord and then built; slices of a built buffer and of
\* its slices
RECURSIVE FloatBuffers(_)
FloatBuffers(n) ==
  IF n = 0 THEN {<<>>}
  ELSE FloatBuffers(n - 1) \cup {Append(cs, f) : cs \in {b \in FloatBuffers(n - 1) : Len(b) = n - 1}, f \in 0..MaxBase}

InitCoordBuffer ==
  /\ kind = "CoordBuffer"
  /\ builder = <<>>
  /\ pushed = <<>>
  /\ arr = NotBuilt
  /\ pc = "building"
  /\ WkbIdle
  /\ CallIdle

CoordCanPush == kind = "CoordBuffer" /\ pc = "building" /\ CoordBufferBuilder_len(builder) < MaxLen
Call_CoordBuffer_try_new ==
  /\ kind = "CoordBuffer" /\ pc = "building" /\ builder = <<>>
  /\ \E coords \in FloatBuffers(2 * MaxLen + 1) :
       /\ inp' = [fn |-> "try_new", coords |-> coords]
       /\ out' = CoordBuffer_try_new(coords)
  /\ pc' = "called"
  /\ UNCHANGED <<kind, builder, pushed, arr, wkbVars>>
Coord_push_xy ==
  /\ CoordCanPush
  /\ \E x \in 0..MaxBase, y \in 0..MaxBase :
       /\ builder' = CoordBufferBuilder_push_xy(builder, x, y)
       /\ pushed' = Append(pushed, <<x, y>>)
       /\ inp' = [fn |-> "push_xy"]
  /\ UNCHANGED <<kind, arr, pc, out, wkbVars>>
Coord_push_geo_coord ==
  /\ CoordCanPush
  /\ \E coord \in GeoPoints :
       /\ builder' = CoordBufferBuilder_push_geo_coord(builder, coord)
       /\ pushed' = Append(pushed, coord)
       /\ inp' = [fn |-> "push_geo_coord"]
  /\ UNCHANGED <<kind, arr, pc, out, wkbVars>>
Coord_build ==
  /\ kind = "CoordBuffer" /\ pc = "building"
  /\ arr' = CoordBufferBuilder_build(builder)
  /\ pc' = "built"
  /\ inp' = [fn |-> "build"]
  /\ UNCHANGED <<kind, builder, pushed, out, wkbVars>>
\* slice of the buffer held; the slice, when there is one, is held from then on
Coord_slice ==
  /\ kind = "CoordBuffer" /\ pc = "built" /\ arr.ok
  /\ \E offset \in 0..(CoordBuffer_len(arr.v) + 1), length \in 0..(CoordBuffer_len(arr.v) + 1) :
       /\ inp' = [fn |-> "slice", offset |-> offset, length |-> length]
       /\ out' = CoordBuffer_slice(arr.v, offset, length)
       /\ arr' = IF CoordBuffer_slice(arr.v, offset, length).ok THEN CoordBuffer_slice(arr.v, offset, length) ELSE arr
  /\ UNCHANGED <<kind, builder, pushed, pc, wkbVars>>

NextCoordBuffer ==
  \/ Call_CoordBuffer_try_new
  \/ Coord_push_xy
  \/ Coord_push_geo_coord
  \/ Coord_build
  \/ Coord_slice
SpecCoordBuffer == InitCoordBuffer /\ [][NextCoordBuffer]_vars

\* ---------------------------------------------------------- ST_Intersects
\* the builder filled by append_geo_geometry with the rows given, then built
RECURSIVE WkbAppendAll(_, _)
WkbAppendAll(b, rows) ==
  IF rows = <<>> THEN b
  ELSE WkbAppendAll(WkbGeometryArrayBuilder_append_geo_geometry(b, Head(rows)).b, Tail(rows))
WkbArrayOf(dialect, rows) == WkbGeometryArrayBuilder_build(WkbAppendAll(WkbGeometryArrayBuilder_new(dialect), rows)).v

\* ScalarValue::to_array_of_size for a binary scalar: size copies of the
\* bytes in a fresh array whose offsets start at 0, or size null rows
RECURSIVE Repeat(_, _)
Repeat(bytes, size) == IF size = 0 THEN <<>> ELSE bytes \o Repeat(bytes, size - 1)
ScalarValue_to_array_of_size(scalar, size) ==
  IF scalar.some
  THEN [value_offsets |-> [i \in 1..(size + 1) |-> (i - 1) * Len(scalar.v)], value_data |-> Repeat(scalar.v, size), nulls |-> None]
  ELSE [value_offsets |-> [i \in 1..(size + 1) |-> 0], value_data |-> <<>>, nulls |-> Some([i \in 1..size |-> FALSE])]
\* the two arrays invoke works on, from its two ColumnarValue arguments
IntersectsUdf_arrays(arg0, arg1) ==
  IF arg0.variant = "Array" /\ arg1.variant = "Array" THEN <<arg0.a, arg1.a>>
  ELSE IF arg0.variant = "Array" THEN <<arg0.a, ScalarValue_to_array_of_size(arg1.s, WkbGeometryArray_geom_len(arg0.a))>>
  ELSE IF arg1.variant = "Array" THEN <<ScalarValue_to_array_of_size(arg0.s, WkbGeometryArray_geom_len(arg1.a)), arg1.a>>
  ELSE <<ScalarValue_to_array_of_size(arg0.s, 1), ScalarValue_to_array_of_size(arg1.s, 1)>>
\* geo::Intersects of two points
geo_intersects(geom0, geom1) == geom0.g = geom1.g
\* a row task that reads the first row of the second array for every row
intersects_row_first_of_second(arr0, arr1, geom_index) ==
  LET geom0 == WkbGeometryArray_geo_value(arr0, geom_index)
      geom1 == WkbGeometryArray_geo_value(arr1, 0)
  IN IF ~geom0.ok THEN geom0
     ELSE IF ~geom1.ok THEN geom1
     ELSE IF geom0.v.some /\ geom1.v.some THEN Ok(Some(geo_intersects(geom0.v.v, geom1.v.v)))
     ELSE Ok(None)
\* the closure one rayon task runs for a row
intersects_row(arr0, arr1, geom_index) ==
  LET geom0 == WkbGeometryArray_geo_value(arr0, geom_index)
      geom1 == WkbGeometryArray_geo_value(arr1, geom_index)
  IN IF ~geom0.ok THEN geom0
     ELSE IF ~geom1.ok THEN geom1
     ELSE IF geom0.v.some /\ geom1.v.some THEN Ok(Some(geo_intersects(geom0.v.v, geom1.v.v)))
     ELSE Ok(None)

\* the arguments: arrays built in one of two dialects from up to MaxLen rows,
\* and scalars holding one row's bytes or null; each argument is kept
\* together with the geometries it was made from
IntersectsDialects == {"Ewkb", "SpatiaLite"}
WkbRowSeqs == UNION {[1..n -> OptionOf(WkbGeometries)] : n \in 0..MaxLen}
ColumnarValues(dialect) ==
  {[variant |-> "Array", a |-> WkbArrayOf(dialect, rows), rows |-> rows] : rows \in WkbRowSeqs}
  \cup {[variant |-> "Scalar", s |-> Some(to_wkb_dialect(g, dialect)), rows |-> <<Some(g)>>] : g \in WkbGeometries}
  \cup {[variant |-> "Scalar", s |-> None, rows |-> <<None>>]}

\* invoke resolves the arguments and compares the lengths; the row tasks then
\* run in any order; collect gathers the rows by index, or, once a task has
\* failed, gives the error of a failed task without waiting for the others
InitIntersects ==
  /\ kind = "ST_Intersects"
  /\ builder = <<>>
  /\ pushed = <<>>
  /\ arr = NotBuilt
  /\ pc = "invoke"
  /\ WkbIdle
  /\ \E d \in IntersectsDialects : \E arg0 \in ColumnarValues(d), arg1 \in ColumnarValues(d) :
        inp = [fn |-> "ST_Intersects", args |-> <<arg0, arg1>>]
  /\ out = NotCalled

Intersects_invoke ==
  /\ kind = "ST_Intersects" /\ pc = "invoke"
  /\ LET arrays == IntersectsUdf_arrays(inp.args[1], inp.args[2])
     IN /\ builder' = arrays
        /\ IF WkbGeometryArray_geom_len(arrays[1]) # WkbGeometryArray_geom_len(arrays[2])
           THEN /\ arr' = Err("Two arrays length is not same")
                /\ pc' = "done"
                /\ pushed' = pushed
           ELSE /\ pushed' = [i \in 1..WkbGeometryArray_geom_len(arrays[1]) |-> NotCalled]
                /\ pc' = "running"
                /\ arr' = arr
  /\ UNCHANGED <<kind, wkbVars, callVars>>
Intersects_task ==
  /\ kind = "ST_Intersects" /\ pc = "running"
  /\ \E i \in 1..Len(pushed) :
       /\ pushed[i] = NotCalled
       /\ pushed' = [pushed EXCEPT ![i] = intersects_row(builder[1], builder[2], i - 1)]
  /\ UNCHANGED <<kind, builder, arr, pc, wkbVars, callVars>>
Intersects_collect ==
  /\ kind = "ST_Intersects" /\ pc = "running"
  /\ \/ /\ \A i \in 1..Len(pushed) : pushed[i].ok
        /\ arr' = Ok([i \in 1..Len(pushed) |-> pushed[i].v])
     \/ \E i \in 1..Len(pushed) :
           /\ pushed[i] # NotCalled /\ ~pushed[i].ok
           /\ arr' = pushed[i]
  /\ pc' = "done"
  /\ UNCHANGED <<kind, builder, pushed, wkbVars, callVars>>

NextIntersects ==
  \/ Intersects_invoke
  \/ Intersects_task
  \/ Intersects_collect
SpecIntersects == InitIntersects /\ [][NextIntersects]_vars

\* -------------------------------------------------------------- ST_Extent
\* f64::MAX; f64::MIN is its negative. The number stands for the largest
\* finite float: it is above every coordinate
F64_MAX == 1000000
Min(a, b) == IF a <= b THEN a ELSE b
Max(a, b) == IF a >= b THEN a ELSE b
Box2d_new == [xmin |-> F64_MAX, ymin |-> F64_MAX, xmax |-> -F64_MAX, ymax |-> -F64_MAX]
\* geo's bounding_rect of a point, as a Box2d
Box2d_from_bounding_rect(geom) == [xmin |-> geom.g[1], ymin |-> geom.g[2], xmax |-> geom.g[1], ymax |-> geom.g[2]]
\* Box2d::value on a struct array of optional boxes
Box2d_value(struct_arr, index) == IF index >= Len(struct_arr) \/ ~At(struct_arr, index).some THEN None ELSE At(struct_arr, index)
\* a bounding box that keeps the upper corner of its first box
compute_bounding_box2d_keep_max(b0, b1) ==
  [xmin |-> Min(b0.xmin, b1.xmin), ymin |-> Min(b0.ymin, b1.ymin), xmax |-> b0.xmax, ymax |-> b0.ymax]
compute_bounding_box2d(b0, b1) ==
  [xmin |-> Min(b0.xmin, b1.xmin), ymin |-> Min(b0.ymin, b1.ymin),
   xmax |-> Max(b0.xmax, b1.xmax), ymax |-> Max(b0.ymax, b1.ymax)]
\* the loop of compute_extent over the rows from index i on
RECURSIVE ComputeExtentFrom(_, _, _)
ComputeExtentFrom(array, i, box2d) ==
  IF i >= WkbGeometryArray_geom_len(array) THEN Ok(box2d)
  ELSE LET value == WkbGeometryArray_geo_value(array, i)
       IN IF ~value.ok THEN value
          ELSE IF value.v.some THEN ComputeExtentFrom(array, i + 1, compute_bounding_box2d(box2d, Box2d_from_bounding_rect(value.v.v)))
          ELSE ComputeExtentFrom(array, i + 1, box2d)
compute_extent(array) == ComputeExtentFrom(array, 0, Box2d_new)
\* update_batch and merge_batch: the call's result and the accumulator after it
ExtentAccumulator_update_batch(acc, values) ==
  IF values = <<>> THEN [res |-> Ok(<<>>), acc |-> acc]
  ELSE IF ~compute_extent(values[1]).ok THEN [res |-> compute_extent(values[1]), acc |-> acc]
  ELSE [res |-> Ok(<<>>), acc |-> [box2d |-> compute_bounding_box2d(acc.box2d, compute_extent(values[1]).v)]]
RECURSIVE MergeFrom(_, _, _)
MergeFrom(acc, struct_arr, index) ==
  IF index >= Len(struct_arr) THEN acc
  ELSE LET scalar == <<At(struct_arr, index)>>
           box2d == Box2d_value(scalar, 0)
       IN MergeFrom(IF box2d.some THEN [box2d |-> compute_bounding_box2d(acc.box2d, box2d.v)] ELSE acc, struct_arr, index + 1)
ExtentAccumulator_merge_batch(acc, states) ==
  IF states = <<>> THEN [res |-> Ok(<<>>), acc |-> acc]
  ELSE [res |-> Ok(<<>>), acc |-> MergeFrom(acc, states[1], 0)]
ExtentAccumulator_state(acc) == Some(acc.box2d)
ExtentAccumulator_evaluate(acc) == Ok(acc.box2d)

\* batches: arrays of up to MaxLen point or null rows in either dialect, and one array whose
\* only row does not decode; partial states: the state of an accumulator that
\* saw one batch, or a null row. Each is kept with the geometries in it
GeomsOf(rows) == {rows[i].v : i \in {j \in 1..Len(rows) : rows[j].some}}
ExtentBatches ==
  {[array |-> WkbArrayOf(d, rows), geoms |-> GeomsOf(rows)] : d \in IntersectsDialects, rows \in WkbRowSeqs}
  \cup {[array |-> [value_offsets |-> <<1, 2>>, value_data |-> <<wkb_type_id("Wkb"), 0>>, nulls |-> None], geoms |-> {}]}
PartialStates ==
  {[state |-> ExtentAccumulator_state(ExtentAccumulator_update_batch([box2d |-> Box2d_new], <<b.array>>).acc), geoms |-> b.geoms] : b \in ExtentBatches}
  \cup {[state |-> None, geoms |-> {}]}

\* builder is the accumulator, pushed the set of geometries it was given in
\* batches or in merged states
InitExtent ==
  /\ kind = "ST_Extent"
  /\ builder = [box2d |-> Box2d_new]
  /\ pushed = {}
  /\ arr = NotBuilt
  /\ pc = "accumulating"
  /\ WkbIdle
  /\ CallIdle

Extent_update_batch ==
  /\ kind = "ST_Extent"
  /\ \/ \E b \in ExtentBatches :
          /\ inp' = [fn |-> "update_batch", values |-> <<b.array>>]
          /\ out' = ExtentAccumulator_update_batch(builder, <<b.array>>).res
          /\ builder' = ExtentAccumulator_update_batch(builder, <<b.array>>).acc
          /\ pushed' = pushed \cup b.geoms
     \/ /\ inp' = [fn |-> "update_batch", values |-> <<>>]
        /\ out' = ExtentAccumulator_update_batch(builder, <<>>).res
        /\ builder' = ExtentAccumulator_update_batch(builder, <<>>).acc
        /\ pushed' = pushed
  /\ UNCHANGED <<kind, arr, pc, wkbVars>>
Extent_merge_batch ==
  /\ kind = "ST_Extent"
  /\ \/ \E n \in 0..MaxLen : \E parts \in [1..n -> PartialStates] :
          LET states == <<[i \in 1..n |-> parts[i].state]>>
          IN /\ inp' = [fn |-> "merge_batch", states |-> states]
             /\ out' = ExtentAccumulator_merge_batch(builder, states).res
             /\ builder' = ExtentAccumulator_merge_batch(builder, states).acc
             /\ pushed' = pushed \cup UNION {parts[i].geoms : i \in 1..n}
     \/ /\ inp' = [fn |-> "merge_batch", states |-> <<>>]
        /\ out' = ExtentAccumulator_merge_batch(builder, <<>>).res
        /\ builder' = ExtentAccumulator_merge_batch(builder, <<>>).acc
        /\ pushed' = pushed
  /\ UNCHANGED <<kind, arr, pc, wkbVars>>
Extent_evaluate ==
  /\ kind = "ST_Extent"
  /\ inp' = [fn |-> "evaluate"]
  /\ out' = ExtentAccumulator_evaluate(builder)
  /\ UNCHANGED <<kind, builder, pushed, arr, pc, wkbVars>>

NextExtent ==
  \/ Extent_update_batch
  \/ Extent_merge_batch
  \/ Extent_evaluate
SpecExtent == InitExtent /\ [][NextExtent]_vars

\* ------------------------------------------------------------ ST_Translate
\* geo's Translate on a point geometry
geo_translate(geom, x_offset, y_offset) == [geom EXCEPT !.g = <<geom.g[1] + x_offset, geom.g[2] + y_offset>>]
\* the loop of invoke: the translated rows from index i on, or the first
\* error of geo_value
RECURSIVE TranslateFrom(_, _, _, _, _)
TranslateFrom(binary_arr, i, x_offset, y_offset, geom_vec) ==
  IF i >= WkbGeometryArray_geom_len(binary_arr) THEN Ok(geom_vec)
  ELSE LET value == WkbGeometryArray_geo_value(binary_arr, i)
       IN IF ~value.ok THEN value
          ELSE TranslateFrom(binary_arr, i + 1, x_offset, y_offset,
                             Append(geom_vec, IF value.v.some THEN Some(geo_translate(value.v.v, x_offset, y_offset)) ELSE None))
\* From<&[Option<geo::Geometry>]> for GeometryArrayBuilder, then build()
GeometryArrayBuilder_from_geo_slice(value) == WkbArrayOf("Wkb", value)
\* is the argument ColumnarValue::Scalar(ScalarValue::Float64(Some(_)))
IsFloatScalar(arg) == arg.variant = "Scalar" /\ arg.s.some
TranslateUdf_invoke(args) ==
  IF ~IsFloatScalar(args[2]) THEN Err("The second arg should be f64 scalar")
  ELSE IF ~IsFloatScalar(args[3]) THEN Err("The third arg should be f64 scalar")
  ELSE LET binary_arr == IF args[1].variant = "Array" THEN args[1].a ELSE ScalarValue_to_array_of_size(args[1].s, 1)
           geom_vec == TranslateFrom(binary_arr, 0, args[2].s.v, args[3].s.v, <<>>)
       IN IF ~geom_vec.ok THEN geom_vec ELSE Ok(GeometryArrayBuilder_from_geo_slice(geom_vec.v))

\* the offsets given: a float scalar, a null scalar or a column
TranslateOffsets ==
  {[variant |-> "Scalar", s |-> Some(n)] : n \in 0..MaxBase}
  \cup {[variant |-> "Scalar", s |-> None], [variant |-> "Array"]}
InitTranslate ==
  /\ BuilderIdle
  /\ WkbIdle
  /\ \E d \in Dialects : \E arg0 \in ColumnarValues(d) : \E x \in TranslateOffsets, y \in TranslateOffsets :
        inp = [fn |-> "ST_Translate", args |-> <<arg0, x, y>>]
  /\ out = NotCalled

Translate_invoke ==
  /\ inp # <<>> /\ inp.fn = "ST_Translate" /\ out = NotCalled
  /\ out' = TranslateUdf_invoke(inp.args)
  /\ UNCHANGED <<builderVars, wkbVars, inp>>

NextTranslate == Translate_invoke
SpecTranslate == InitTranslate /\ [][NextTranslate]_vars

\* ------------------------------------------------ calls of the dialect codec
\* wkb_type_id(d) followed by decode_wkb_dialect of its result, for a dialect;
\* decode_wkb_dialect(b) for a byte; dialect() of a byte array whose value
\* store is empty, or one byte, or one byte and a payload
DialectArrays ==
  {[value_offsets |-> <<0>>, value_data |-> <<>>, nulls |-> None]}
  \cup {[value_offsets |-> <<1>>, value_data |-> <<b>>, nulls |-> None] : b \in 0..U8Max}
  \cup {[value_offsets |-> <<1, 5>>, value_data |-> <<b, 1, 1, 0, 1>>, nulls |-> None] : b \in 0..U8Max}

InitDialect ==
  /\ BuilderIdle
  /\ WkbIdle
  /\ \/ \E d \in Dialects : inp = [fn |-> "wkb_type_id", dialect |-> d]
     \/ \E b \in 0..U8Max : inp = [fn |-> "decode_wkb_dialect", type_id |-> b]
     \/ \E a \in DialectArrays : inp = [fn |-> "dialect", array |-> a]
  /\ out = NotCalled

Call_wkb_type_id ==
  /\ inp.fn = "wkb_type_id"
  /\ out = NotCalled
  /\ out' = [type_id |-> wkb_type_id(inp.dialect), decoded |-> decode_wkb_dialect(wkb_type_id(inp.dialect))]
  /\ UNCHANGED <<inp, builderVars, wkbVars>>
Call_decode_wkb_dialect ==
  /\ inp.fn = "decode_wkb_dialect"
  /\ out = NotCalled
  /\ out' = decode_wkb_dialect(inp.type_id)
  /\ UNCHANGED <<inp, builderVars, wkbVars>>
Call_WkbGeometryArray_dialect ==
  /\ inp.fn = "dialect"
  /\ out = NotCalled
  /\ out' = WkbGeometryArray_dialect(inp.array)
  /\ UNCHANGED <<inp, builderVars, wkbVars>>

NextDialect ==
  \/ Call_wkb_type_id
  \/ Call_decode_wkb_dialect
  \/ Call_WkbGeometryArray_dialect
SpecDialect == InitDialect /\ [][NextDialect]_vars

\* ================================================================== claims
\* what iter_geo() has to yield for the rows pushed: the pushed geometry,
\* tagged with the array's shape, for a present row and None for a null row
ExpectedGeo == [i \in 1..Len(pushed) |-> IF pushed[i].some THEN Some([type |-> kind, g |-> pushed[i].v]) ELSE None]
NonDecreasing(offs) == \A i \in 1..(Len(offs) - 1) : offs[i] <= offs[i + 1]
RECURSIVE RingsPushed(_)
RingsPushed(rows) == IF rows = <<>> THEN 0 ELSE (IF Head(rows).some THEN 1 + Len(Head(rows).v.interiors) ELSE 0) + RingsPushed(Tail(rows))

\* C1: LineStringArrayBuilder and MultiPointArrayBuilder round-trip: after
\* any pushes of Some(geometry) (also one with zero coordinates) and None,
\* the built array's len() is the number of pushes and iter_geo() yields the
\* pushed rows in order, Some(g) with the same coordinates or None.
C1_LineMultiPointRoundTrip ==
  (pc = "built" /\ kind \in {"LineString", "MultiPoint"}) =>
     /\ arr.ok
     /\ ArrayLen(kind, arr.v) = Len(pushed)
     /\ iter_geo(kind, arr.v) = Ok(ExpectedGeo)
C1_Witness ==
  /\ pc = "built" /\ kind = "LineString" /\ Len(pushed) = 3
  /\ pushed[1] = Some(<<>>) /\ pushed[2] = None
  /\ pushed[3].some /\ Len(pushed[3].v) = 2

\* C2: PolygonArrayBuilder round-trip: after any pushes of Some(polygon) and
\* None, the built array's len() is the number of pushes and iter_geo()
\* yields the pushed rows in order, each present polygon with the same
\* exterior ring and the same interior rings.
C2_PolygonRoundTrip ==
  (pc = "built" /\ kind = "Polygon") =>
     /\ arr.ok
     /\ ArrayLen(kind, arr.v) = Len(pushed)
     /\ iter_geo(kind, arr.v) = Ok(ExpectedGeo)

\* C3: PointArrayBuilder: after any pushes, the number of stored
\* coordinates, the number of validity bits and len() all equal the number
\* of pushes (a null row holds one placeholder coordinate), and iter_geo()
\* yields the pushed rows in order with None for every null row.
C3_PointRowCount ==
  (pc = "built" /\ kind = "Point") =>
     /\ arr.ok
     /\ CoordBuffer_len(arr.v.coords) = Len(pushed)
     /\ NullBufferBuilder_len(builder.nulls) = Len(pushed)
     /\ arr.v.nulls.some => Len(arr.v.nulls.v) = Len(pushed)
     /\ PointArray_len(arr.v) = Len(pushed)
     /\ \A i \in 1..Len(pushed) : ~pushed[i].some => CoordBuffer_x(arr.v.coords, i - 1).some /\ CoordBuffer_y(arr.v.coords, i - 1).some
     /\ iter_geo(kind, arr.v) = Ok(ExpectedGeo)
C3_Witness ==
  /\ pc = "built" /\ kind = "Point" /\ Len(pushed) = 3
  /\ pushed[1].some /\ pushed[2] = None /\ pushed[3].some
  /\ CoordBuffer_len(arr.v.coords) = 3

\* C5: in every array built by the LineString, MultiPoint or Polygon
\* builder, each offset buffer is non-decreasing, geom_offsets has rows+1
\* entries, ring_offsets has rings+1 entries, and the last entry of each
\* offset buffer is the length of the buffer one level below it.
C5_OffsetsWellFormed ==
  (pc = "built" /\ kind \in {"LineString", "MultiPoint", "Polygon"}) =>
     /\ arr.ok
     /\ NonDecreasing(arr.v.geom_offsets)
     /\ Len(arr.v.geom_offsets) = Len(pushed) + 1
     /\ kind # "Polygon" => Last(arr.v.geom_offsets) = CoordBuffer_len(arr.v.coords)
     /\ kind = "Polygon" =>
          /\ NonDecreasing(arr.v.ring_offsets)
          /\ Len(arr.v.ring_offsets) = RingsPushed(pushed) + 1
          /\ Last(arr.v.ring_offsets) = CoordBuffer_len(arr.v.coords)
          /\ Last(arr.v.geom_offsets) = Len(arr.v.ring_offsets) - 1
C5_Witness ==
  /\ pc = "built" /\ kind = "Polygon" /\ Len(pushed) = 3
  /\ pushed[1].some /\ pushed[2] = None /\ pushed[3].some
  /\ Len(pushed[3].v.interiors) = 1
  /\ Len(pushed[1].v.exterior) # Len(pushed[3].v.exterior)
  /\ Len(arr.v.ring_offsets) = 4

\* C6: null rows are zero-width: in every array built by the LineString,
\* MultiPoint or Polygon builder, geom_offsets[i+1] = geom_offsets[i] for
\* every row i pushed as null, and push_null() appends no coordinate and no
\* ring.
C6_NullRowsZeroWidth ==
  (pc = "built" /\ kind \in {"LineString", "MultiPoint", "Polygon"} /\ arr.ok) =>
     \A i \in 1..Len(pushed) : ~pushed[i].some => arr.v.geom_offsets[i + 1] = arr.v.geom_offsets[i]

\* C7: for every sequence of pushes (the empty one and those starting with
\* a null included) on the Point, LineString, MultiPoint and Polygon
\* builders, try_new inside build() succeeds: expect("builder has checked")
\* never fails.
C7_BuildNeverPanics == pc = "built" => arr.ok
C7_Witness ==
  /\ pc = "built" /\ arr.ok /\ kind = "Polygon" /\ Len(pushed) = 2
  /\ pushed[1] = None /\ pushed[2].some /\ Len(pushed[2].v.interiors) = 1

\* C4: WKB GeometryArrayBuilder: after any successful append_wkb(Some),
\* append_geo_geometry and append_null calls and build(), geom_len() is the
\* number of appends, wkb(i) is exactly the payload appended for row i,
\* without the dialect tag byte, for every non-null row, and wkb(i) and
\* geo_value(i) are None for every null row.
C4_WkbRowsReadBack ==
  wkb_pc = "built" =>
     /\ wkb_arr.ok
     /\ WkbGeometryArray_geom_len(wkb_arr.v) = Len(wkb_pushed)
     /\ \A i \in 1..Len(wkb_pushed) :
          /\ wkb_pushed[i].some => WkbGeometryArray_wkb(wkb_arr.v, i - 1) = wkb_pushed[i]
          /\ ~wkb_pushed[i].some =>
               /\ WkbGeometryArray_wkb(wkb_arr.v, i - 1) = None
               /\ WkbGeometryArray_geo_value(wkb_arr.v, i - 1) = Ok(None)
C4_Witness ==
  /\ wkb_pc = "built" /\ wkb_arr.ok /\ Len(wkb_pushed) = 3
  /\ wkb_builder.dialect = "Ewkb"
  /\ wkb_pushed[1].some /\ wkb_pushed[2] = None /\ wkb_pushed[3].some
  /\ wkb_pushed[1] # wkb_pushed[3]
  /\ WkbGeometryArray_wkb(wkb_arr.v, 2) = wkb_pushed[3]

\* the three malformations PolygonArray::try_new has to reject
PolygonBuffersMalformed(i) ==
  \/ Last(i.ring_offsets) # CoordBuffer_len(i.coords)
  \/ Last(i.geom_offsets) # Len(i.ring_offsets) - 1
  \/ (i.nulls.some /\ Len(i.nulls.v) # Len(i.geom_offsets) - 1)

\* C8: PolygonArray::try_new returns an error (no panic, no array) when the
\* last ring offset differs from the number of coordinates, or the last
\* geometry offset differs from the number of rings, or a null buffer is given
\* whose length differs from the number of rows; it returns Ok, with the
\* buffers it was handed, exactly when none of the three holds.
C8_PolygonTryNewErrors ==
  (inp # <<>> /\ inp.fn = "PolygonArray::try_new" /\ out # NotCalled) =>
     /\ ~out.panic
     /\ out.ok <=> ~PolygonBuffersMalformed(inp)
     /\ out.ok => out.v = [coords |-> inp.coords, geom_offsets |-> inp.geom_offsets,
                           ring_offsets |-> inp.ring_offsets, nulls |-> inp.nulls]
\* a call with a null buffer and two rows that is accepted
C8_Witness ==
  /\ inp # <<>> /\ inp.fn = "PolygonArray::try_new"
  /\ out # NotCalled /\ out.ok
  /\ inp.nulls.some /\ Len(inp.geom_offsets) = 3 /\ CoordBuffer_len(inp.coords) = 2

\* the sub-array the claim assigns to a geometry type, and its value at a row
SubArrayOf(a, t) ==
  CASE t = "Point" -> a.points
    [] t = "LineString" -> a.line_strings
    [] t = "Polygon" -> a.polygons
    [] t = "MultiPoint" -> a.multi_points
    [] t = "MultiLineString" -> a.multi_line_strings
    [] t = "MultiPolygon" -> a.multi_polygons
SubArrayValue(t, sub, row) ==
  CASE t = "Point" -> PointArray_value(sub, row)
    [] t = "LineString" -> LineStringArray_value(sub, row)
    [] t = "Polygon" -> PolygonArray_value(sub, row)
    [] t = "MultiPoint" -> MultiPointArray_value(sub, row)
    [] t = "MultiLineString" -> MultiLineStringArray_value(sub, row)
    [] t = "MultiPolygon" -> MultiPolygonArray_value(sub, row)
MixedCalled == inp # <<>> /\ inp.fn = "MixedGeometryArray::value" /\ out # NotCalled
MixedRowInRange == inp.index < MixedGeometryArray_len(inp.array)
MixedRowTypeId == At(inp.array.type_ids, inp.index)

\* C9: for an in-range row i whose type id is one of 1..6 and whose sub-array
\* is present, MixedGeometryArray.value(i) is the value of the sub-array that
\* GeometryType assigns to type_ids[i] (1 points, 2 line strings, 3 polygons,
\* 4 multi points, 5 multi line strings, 6 multi polygons) at row offsets[i],
\* and a returned scalar's shape variant has the type id type_ids[i].
C9_MixedValueDispatch ==
  (MixedCalled /\ MixedRowInRange) =>
     LET t == GeometryType_find(MixedRowTypeId)
     IN (t.some /\ SubArrayOf(inp.array, t.v).some) =>
          /\ out = MapScalar(t.v, SubArrayValue(t.v, SubArrayOf(inp.array, t.v).v, At(inp.array.offsets, inp.index)))
          /\ (out.ok /\ out.v.some) => GeometryType_geo_type_id(out.v.v.variant) = MixedRowTypeId
\* row 1 is a multi line string stored at row 0 of its sub-array and is read
C9_Witness ==
  /\ MixedCalled /\ inp.index = 1 /\ MixedRowInRange
  /\ MixedRowTypeId = 5 /\ At(inp.array.offsets, 1) = 0
  /\ out.ok /\ out.v.some /\ out.v.v.variant = "MultiLineString"

\* C10: for an in-range row i, MixedGeometryArray.value(i) is an error (not a
\* value, not None, not a panic) when type_ids[i] is in 1..6 but the sub-array
\* for it is absent, and when type_ids[i] is outside 1..6.
C10_MixedValueErrors ==
  (MixedCalled /\ MixedRowInRange) =>
     LET t == GeometryType_find(MixedRowTypeId)
     IN (MixedRowTypeId \notin 1..6 \/ ~SubArrayOf(inp.array, t.v).some) => (~out.ok /\ ~out.panic)
\* a polygon row read from a Mixed array that holds no polygon sub-array
C10_Witness ==
  /\ MixedCalled /\ MixedRowInRange
  /\ MixedRowTypeId = 3 /\ ~inp.array.polygons.some /\ inp.array.points.some
  /\ ~out.ok /\ ~out.panic

ValueCalled == inp # <<>> /\ inp.fn = "GeometryArray::value" /\ out # NotCalled

\* C11: for every array kind (the six typed arrays and the Mixed array),
\* value(i) with i >= len() returns an error: not Ok(None), not a value, and
\* not a panic either.
C11_ValueOutOfRangeErrors ==
  (ValueCalled /\ inp.index >= GeometryArray_len(inp.kind, inp.array)) => (~out.ok /\ ~out.panic)

\* C13: for every array kind, the Mixed array with its own validity buffer
\* included, value(i) is Ok(None) whenever the array's validity bit of row i
\* is unset, whatever the row's offsets, type id or sub-array hold.
C13_NullRowIsNone ==
  (ValueCalled /\ inp.index < GeometryArray_len(inp.kind, inp.array) /\ is_null(inp.array, inp.index)) => out = Ok(None)

WkbRead == inp # <<>> /\ inp.fn = "geo_value" /\ out # NotCalled

\* C12: for a WKB array of n rows, wkb(i) is None and geo_value(i) is
\* Ok(None), without any error, for every index i >= n.
C12_WkbPastEndIsNone ==
  (WkbRead /\ inp.index >= WkbGeometryArray_geom_len(wkb_arr.v)) =>
     (out.wkb = None /\ out.geo_value = Ok(None))
\* index 3 of a three-row array whose last row is present was read
C12_Witness ==
  /\ WkbRead /\ inp.index = 3 /\ WkbGeometryArray_geom_len(wkb_arr.v) = 3
  /\ wkb_pushed[3].some /\ wkb_pushed[2] = None
  /\ out.geo_value = Ok(None)

\* C16: an array built by GeometryArrayBuilder::new(d, _) after any appends
\* (none included) has dialect() = d: byte 0 of the value store is
\* wkb_type_id(d), the first offset is 1, and no row's byte range
\* [offsets[i], offsets[i+1]) includes byte 0; the builder keeps the same
\* layout while rows are appended.
C16_BuiltDialectIsBuilders ==
  /\ wkb_pc = "building" =>
        /\ Get(wkb_builder.value_builder, 0) = Some(wkb_type_id(wkb_builder.dialect))
        /\ At(wkb_builder.offsets_builder, 0) = 1
  /\ wkb_pc = "built" =>
        /\ wkb_arr.ok
        /\ WkbGeometryArray_dialect(wkb_arr.v) = Ok(wkb_builder.dialect)
        /\ Get(wkb_arr.v.value_data, 0) = Some(wkb_type_id(wkb_builder.dialect))
        /\ At(wkb_arr.v.value_offsets, 0) = 1
        /\ \A i \in 0..(WkbGeometryArray_geom_len(wkb_arr.v) - 1) :
              /\ At(wkb_arr.v.value_offsets, i) >= 1
              /\ At(wkb_arr.v.value_offsets, i) <= At(wkb_arr.v.value_offsets, i + 1)
\* a GeoPackage array of two rows, the first null, was built
C16_Witness ==
  /\ wkb_pc = "built" /\ wkb_arr.ok /\ wkb_builder.dialect = "Geopackage"
  /\ Len(wkb_pushed) = 2 /\ wkb_pushed[1] = None /\ wkb_pushed[2].some
  /\ WkbGeometryArray_dialect(wkb_arr.v) = Ok("Geopackage")

\* C18: append_wkb(Some(bytes)) with bytes that do not decode as a geometry
\* in the builder's dialect returns an error and leaves the builder's value
\* bytes, offsets and validity bits as they were: no row is added.
C18_FailedAppendLeavesBuilder ==
  [][(/\ wkb_pc = "building"
      /\ inp'.fn = "append_wkb"
      /\ inp'.wkb.some
      /\ ~from_wkb(inp'.wkb.v, wkb_builder.dialect).ok)
     => (/\ ~wkb_last'.ok /\ ~wkb_last'.panic
         /\ wkb_builder' = wkb_builder
         /\ wkb_pushed' = wkb_pushed)]_vars
\* a call failed between two appends that succeeded, and the array built
\* afterwards has the two rows
C18_Witness ==
  /\ wkb_pc = "built" /\ wkb_arr.ok
  /\ wkb_last = Err("Failed to parse wkb")
  /\ Len(wkb_pushed) = 1 /\ wkb_pushed[1].some
  /\ WkbGeometryArray_geom_len(wkb_arr.v) = 1
  /\ WkbGeometryArray_wkb(wkb_arr.v, 0) = wkb_pushed[1]

\* C17: in a WKB array the bytes of every non-null row, i.e. the range between
\* the row's two offsets, are one dialect-tag byte followed by the payload.
C17_RowsCarryTag ==
  (wkb_pc = "built" /\ wkb_arr.ok) =>
     \A i \in 1..Len(wkb_pushed) :
        wkb_pushed[i].some =>
           GenericByteArray_value(wkb_arr.v, i - 1) = <<wkb_type_id(wkb_builder.dialect)>> \o wkb_pushed[i].v

DialectCalled(fn) == inp # <<>> /\ inp.fn = fn /\ out # NotCalled

\* C14: decode_wkb_dialect(wkb_type_id(d)) = d for each of the five dialects,
\* and no other dialect has the type id of d.
C14_DialectRoundTrip ==
  DialectCalled("wkb_type_id") =>
     /\ out.decoded = Ok(inp.dialect)
     /\ \A d \in Dialects \ {inp.dialect} : wkb_type_id(d) # out.type_id
C14_Witness ==
  /\ DialectCalled("wkb_type_id") /\ inp.dialect = "SpatiaLite"
  /\ out.decoded = Ok("SpatiaLite")

\* the dialect each tag byte stands for
DialectOfByte == (1 :> "Wkb") @@ (2 :> "Ewkb") @@ (3 :> "Geopackage") @@ (4 :> "MySQL") @@ (5 :> "SpatiaLite")

\* C15: decode_wkb_dialect maps 1 to WKB, 2 to EWKB, 3 to GeoPackage, 4 to
\* MySQL, 5 to SpatiaLite and returns an error for every other byte; dialect()
\* of a WKB array is an error when the value store is empty or its first byte
\* is none of 1..5, and the dialect of the first byte otherwise.
C15_UnknownTagIsError ==
  /\ DialectCalled("decode_wkb_dialect") =>
        IF inp.type_id \in DOMAIN DialectOfByte
        THEN out = Ok(DialectOfByte[inp.type_id])
        ELSE ~out.ok /\ ~out.panic
  /\ DialectCalled("dialect") =>
        IF inp.array.value_data # <<>> /\ inp.array.value_data[1] \in DOMAIN DialectOfByte
        THEN out = Ok(DialectOfByte[inp.array.value_data[1]])
        ELSE ~out.ok /\ ~out.panic
\* dialect() of an array whose store starts with byte 0, followed by a payload
C15_Witness ==
  /\ DialectCalled("dialect") /\ Len(inp.array.value_data) > 1
  /\ inp.array.value_data[1] = 0
  /\ ~out.ok /\ ~out.panic

\* the validity bits a builder would finish with
Validity(b) == Materialized(b.builder.nulls)
IsPointGeometry(geometry) == geometry.some /\ geometry.v.type = "Point"

\* C19: push_geo_geometry on the Point variant returns an error for a
\* geometry that is no Point and leaves the builder's coordinates and
\* validity as they were; a Point appends one valid row with its x and y;
\* None appends one null row; build_geometry_array_from_geo for a Point array
\* returns an error when some element of the data is a non-Point geometry.
C19_NonPointRejected ==
  [][/\ (pc = "building" /\ inp'.fn = "push_geo_geometry") =>
          IF ~inp'.geometry.some
          THEN /\ out' = Ok(<<>>)
               /\ Validity(builder') = Append(Validity(builder), FALSE)
               /\ Len(builder'.builder.coords) = Len(builder.builder.coords) + 2
          ELSE IF inp'.geometry.v.type = "Point"
          THEN /\ out' = Ok(<<>>)
               /\ Validity(builder') = Append(Validity(builder), TRUE)
               /\ builder'.builder.coords = builder.builder.coords \o inp'.geometry.v.g
          ELSE /\ ~out'.ok /\ ~out'.panic
               /\ builder'.builder.coords = builder.builder.coords
               /\ builder'.builder.nulls = builder.builder.nulls
     /\ (pc = "building" /\ inp'.fn = "build_geometry_array_from_geo") =>
          ((\E i \in 1..Len(inp'.data) : inp'.data[i].some /\ ~IsPointGeometry(inp'.data[i]))
             => (~arr'.ok /\ ~arr'.panic))]_vars
\* a line string was rejected after a point had been stored, and the vector
\* of the same geometries was refused as well
C19_Witness ==
  /\ kind = "GeometryArrayBuilder" /\ pc = "built"
  /\ Len(pushed) = 2 /\ IsPointGeometry(pushed[1])
  /\ pushed[2].some /\ pushed[2].v.type = "LineString"
  /\ ~out.ok
  /\ Len(builder.builder.coords) = 2
  /\ ~arr.ok /\ ~arr.panic

EvenFloats(cb) == Len(cb.coords) % 2 = 0 /\ CoordBuffer_len(cb) * 2 = Len(cb.coords)

\* C20: a CoordBuffer obtained from try_new, from CoordBufferBuilder::build
\* after any pushes of push_xy and push_geo_coord, or from slice holds an even
\* number of floats and its len() is half of that number; build never fails
\* after such pushes; try_new returns an error for every input of odd length.
C20_CoordBufferEven ==
  kind = "CoordBuffer" =>
     /\ pc = "built" => (arr.ok /\ EvenFloats(arr.v))
     /\ out.ok => EvenFloats(out.v)
     /\ (pc = "called" /\ Len(inp.coords) % 2 = 1) => (~out.ok /\ ~out.panic)
     /\ (pc = "called" /\ Len(inp.coords) % 2 = 0) => out.ok
\* the second coordinate of a built buffer of two was sliced off
C20_Witness ==
  /\ kind = "CoordBuffer" /\ pc = "built"
  /\ Len(pushed) = 2
  /\ inp = [fn |-> "slice", offset |-> 1, length |-> 1]
  /\ out = Ok([coords |-> pushed[2]])

\* C21: slice(offset, length) is an error exactly when offset + length >
\* len(); otherwise the slice has len() = length, its point i is point
\* offset + i of the buffer sliced for every i < length, and x(i) and y(i)
\* are None from i = length on. The buffer sliced is borrowed, so arr is the
\* original both before and after the call.
C21_SliceWindow ==
  [][(kind = "CoordBuffer" /\ pc = "built" /\ inp'.fn = "slice") =>
       IF inp'.offset + inp'.length > CoordBuffer_len(arr.v)
       THEN ~out'.ok /\ ~out'.panic
       ELSE /\ out'.ok
            /\ CoordBuffer_len(out'.v) = inp'.length
            /\ \A i \in 0..(inp'.length - 1) :
                 /\ CoordBuffer_x(out'.v, i).some
                 /\ CoordBuffer_x(out'.v, i) = CoordBuffer_x(arr.v, inp'.offset + i)
                 /\ CoordBuffer_y(out'.v, i).some
                 /\ CoordBuffer_y(out'.v, i) = CoordBuffer_y(arr.v, inp'.offset + i)
            /\ \A i \in inp'.length..(inp'.length + MaxLen) :
                 CoordBuffer_x(out'.v, i) = None /\ CoordBuffer_y(out'.v, i) = None]_vars
\* the last of two different coordinates was sliced out of a built buffer
C21_Witness ==
  /\ kind = "CoordBuffer" /\ pc = "built"
  /\ Len(pushed) = 2 /\ pushed[1] # pushed[2]
  /\ inp # <<>> /\ inp.fn = "slice" /\ inp.offset = 1 /\ inp.length = 1
  /\ out.ok /\ CoordBuffer_x(out.v, 0) = Some(pushed[2][1])
  /\ CoordBuffer_x(out.v, 1) = None

\* ring r (counted from 0) of a polygon array holds exactly the coordinates
\* of the pushed ring
RingIs(a, r, ring) ==
  /\ Get(a.ring_offsets, r).some /\ Get(a.ring_offsets, r + 1).some
  /\ Get(a.ring_offsets, r + 1).v - Get(a.ring_offsets, r).v = Len(ring)
  /\ \A j \in 1..Len(ring) :
       /\ CoordBuffer_x(a.coords, Get(a.ring_offsets, r).v + j - 1) = Some(ring[j][1])
       /\ CoordBuffer_y(a.coords, Get(a.ring_offsets, r).v + j - 1) = Some(ring[j][2])
\* the rings of the pushed rows in push order, exterior first
RECURSIVE AllRings(_)
AllRings(rows) ==
  IF rows = <<>> THEN <<>>
  ELSE (IF Head(rows).some THEN <<Head(rows).v.exterior>> \o Head(rows).v.interiors ELSE <<>>) \o AllRings(Tail(rows))
RECURSIVE CoordsBefore(_, _)
CoordsBefore(rings, k) == IF k <= 1 THEN 0 ELSE Len(rings[k - 1]) + CoordsBefore(rings, k - 1)

\* C22: in a PolygonArray built by PolygonArrayBuilder, every non-null row i
\* has a ring range of width 1 + (interior rings of the polygon pushed as row
\* i), the ring at geom_offsets[i] is that polygon's exterior and its interior
\* rings follow in their order.
C22_RowRingRange ==
  (pc = "built" /\ kind = "Polygon" /\ arr.ok) =>
     \A i \in 1..Len(pushed) : pushed[i].some =>
        /\ arr.v.geom_offsets[i + 1] - arr.v.geom_offsets[i] = 1 + Len(pushed[i].v.interiors)
        /\ RingIs(arr.v, arr.v.geom_offsets[i], pushed[i].v.exterior)
        /\ \A h \in 1..Len(pushed[i].v.interiors) :
             RingIs(arr.v, arr.v.geom_offsets[i] + h, pushed[i].v.interiors[h])

\* C23: in a PolygonArray built by PolygonArrayBuilder from any polygons,
\* also with rings of different lengths, ring_offsets[k] is the number of
\* coordinates of all rings pushed before ring k, so the coordinates from
\* ring_offsets[k] up to ring_offsets[k+1] are those of ring k.
C23_RingOffsetsCumulative ==
  (pc = "built" /\ kind = "Polygon" /\ arr.ok) =>
     \A k \in 1..Len(AllRings(pushed)) :
        /\ Get(arr.v.ring_offsets, k - 1) = Some(CoordsBefore(AllRings(pushed), k))
        /\ RingIs(arr.v, k - 1, AllRings(pushed)[k])

ViewCalled(fn) == inp # <<>> /\ inp.fn = "view" /\ inp.view.ok /\ out # NotCalled /\ out.fn = fn
\* the offset window of the view's row
WindowStart == inp.view.v.start_offset
WindowEnd == inp.view.v.end_offset

\* C24: the element count of a view over the window from start to end is
\* end - start, computed without unsigned underflow, for LineString
\* num_coords, MultiPoint num_points, MultiLineString num_lines and
\* MultiPolygon num_polygons; Polygon num_interiors is end - start - 1.
C24_CountIsWindowWidth ==
  ViewCalled("count") =>
     out.r = Ok(WindowEnd - WindowStart - (IF inp.type = "Polygon" THEN 1 ELSE 0))

\* the view of ring r over the buffers the views are made of
RingView(r) == LineString_try_new(UnitCoords, UnitOffsets, r).v

\* C28: for a MultiLineString view over the ring window from start to end,
\* line(i) is the LineString at ring start + i for every i < end - start and
\* None from i = end - start on, and to_geo() yields the lines of the window
\* in their stored order.
C28_LineIsRingAtStartPlusI ==
  /\ (ViewCalled("sub") /\ inp.type = "MultiLineString") =>
        IF out.i < WindowEnd - WindowStart
        THEN out.r = Ok(Some(RingView(WindowStart + out.i)))
        ELSE out.r = Ok(None)
  /\ ViewCalled("to_geo") =>
        out.r = Ok([type |-> "MultiLineString",
                    g |-> [k \in 1..(WindowEnd - WindowStart) |-> LineString_into_geo(RingView(WindowStart + k - 1))]])

\* C29: constructing a Polygon view over the ring window from start to end
\* fails with an error when start = end; otherwise exterior() is the ring at
\* start, num_interiors() is end - start - 1, interior(i) is the ring at
\* start + i + 1 for i < num_interiors() and None from there on.
C29_PolygonRingPositions ==
  (inp # <<>> /\ inp.fn = "view" /\ inp.type = "Polygon"
   /\ compute_start_end_offset(inp.geom_offsets, inp.geom_index).ok) =>
     LET start == Get(inp.geom_offsets, inp.geom_index).v
         end == Get(inp.geom_offsets, inp.geom_index + 1).v
     IN /\ start = end => (~inp.view.ok /\ ~inp.view.panic)
        /\ start # end => inp.view.ok
        /\ (out # NotCalled /\ out.fn = "exterior") => out.r = Ok(Some(RingView(start)))
        /\ (out # NotCalled /\ out.fn = "count") => out.r = Ok(end - start - 1)
        /\ (out # NotCalled /\ out.fn = "sub") =>
              IF out.i < end - start - 1
              THEN out.r = Ok(Some(RingView(start + out.i + 1)))
              ELSE out.r = Ok(None)
\* the only interior ring of a polygon over the rings 0 and 1 was read
C29_Witness ==
  /\ ViewCalled("sub") /\ inp.type = "Polygon"
  /\ WindowStart = 0 /\ WindowEnd = 2
  /\ out.i = 0 /\ out.r = Ok(Some(RingView(1)))

MixedTryNewCalled == inp # <<>> /\ inp.fn = "MixedGeometryArray::try_new" /\ out # NotCalled
\* some row's type id is one of the six whose sub-array was left out
UsesAbsentSubArray ==
  \E i \in 1..Len(inp.type_ids) :
     /\ GeometryType_find(inp.type_ids[i]).some
     /\ GeometryType_find(inp.type_ids[i]).v \notin inp.present

\* C25 as stated: every array try_new accepts has type ids and offsets of
\* one length and a sub-array for every type id used, and try_new returns an
\* error for inputs violating either.
C25_TryNewChecksSubArrays ==
  MixedTryNewCalled =>
     /\ out.ok => (Len(out.v.type_ids) = Len(out.v.offsets) /\ ~UsesAbsentSubArray)
     /\ (Len(inp.type_ids) # Len(inp.offsets) \/ UsesAbsentSubArray) => ~out.ok
\* C25, amended: try_new returns an error exactly when the type ids and the
\* offsets differ in length or a null buffer is given whose length is not the
\* number of type ids; every array it accepts holds the buffers and
\* sub-arrays as given, so a type id whose sub-array is absent is accepted.
C25_TryNewChecksLengths ==
  MixedTryNewCalled =>
     /\ (~out.ok /\ ~out.panic) <=>
           \/ Len(inp.type_ids) # Len(inp.offsets)
           \/ (inp.nulls.some /\ Len(inp.nulls.v) # Len(inp.type_ids))
     /\ out.ok =>
           /\ out.v.type_ids = inp.type_ids /\ out.v.offsets = inp.offsets /\ out.v.nulls = inp.nulls
           /\ Len(out.v.type_ids) = Len(out.v.offsets)
           /\ \A t \in GeometryTypes : SubArrayOf(out.v, t).some <=> t \in inp.present
\* an array of one point row was accepted although it holds no point array
C25_Witness ==
  /\ MixedTryNewCalled /\ out.ok
  /\ inp.type_ids = <<PointArray_geo_type_id>> /\ inp.present = {}
  /\ ~out.v.points.some

IntersectsDone == kind = "ST_Intersects" /\ pc = "done"
\* the rows of an argument as the caller sees them: an array's rows, or the
\* scalar's one row repeated
ArgIsArray(k) == inp.args[k].variant = "Array"
ArgRows(k) == IF ArgIsArray(k) THEN Len(inp.args[k].rows) ELSE 1
ArgRow(k, i) == IF ArgIsArray(k) THEN inp.args[k].rows[i] ELSE inp.args[k].rows[1]
OutputRows == IF ArgIsArray(1) THEN ArgRows(1) ELSE ArgRows(2)
ExpectedIntersects(i) ==
  IF ArgRow(1, i).some /\ ArgRow(2, i).some THEN Some(ArgRow(1, i).v.g = ArgRow(2, i).v.g) ELSE None

\* C26: ST_Intersects on two arrays of n rows each returns, whatever the
\* order in which the row tasks ran, n rows of which row i is null when row
\* i of either input is null and the predicate of the two rows i otherwise;
\* two arrays of different lengths are rejected with an error. An output for
\* a scalar argument has the rows of the scalar repeated for every row.
C26_RowsIndependent ==
  IntersectsDone =>
     /\ (ArgIsArray(1) /\ ArgIsArray(2) /\ ArgRows(1) # ArgRows(2)) => (~arr.ok /\ ~arr.panic)
     /\ (ArgIsArray(1) /\ ArgIsArray(2) /\ ArgRows(1) = ArgRows(2)) => arr.ok
     /\ arr.ok =>
          /\ Len(arr.v) = OutputRows
          /\ \A i \in 1..OutputRows : arr.v[i] = ExpectedIntersects(i)
\* two arrays of two rows: rows 1 intersect, row 2 of the second is null
C26_Witness ==
  /\ IntersectsDone /\ ArgIsArray(1) /\ ArgIsArray(2)
  /\ ArgRows(1) = 2 /\ ArgRows(2) = 2
  /\ arr = Ok(<<Some(TRUE), None>>)
  /\ ArgRow(1, 2).some

\* least and greatest of a set of numbers, the value of an empty box when
\* the set is empty
Least(S, empty) == IF S = {} THEN empty ELSE CHOOSE m \in S : \A n \in S : m <= n
Greatest(S, empty) == IF S = {} THEN empty ELSE CHOOSE m \in S : \A n \in S : m >= n
ExtentOf(geoms) ==
  [xmin |-> Least({g.g[1] : g \in geoms}, F64_MAX), ymin |-> Least({g.g[2] : g \in geoms}, F64_MAX),
   xmax |-> Greatest({g.g[1] : g \in geoms}, -F64_MAX), ymax |-> Greatest({g.g[2] : g \in geoms}, -F64_MAX)]

\* the accumulated box is the least xmin and ymin and the greatest xmax and
\* ymax over all geometries given so far; evaluate() returns that box
ExtentIsMinMax ==
  kind = "ST_Extent" =>
     /\ builder.box2d = ExtentOf(pushed)
     /\ (inp # <<>> /\ inp.fn = "evaluate") => out = Ok(ExtentOf(pushed))
\* no call makes the box smaller
BoxNeverShrinks ==
  [][kind = "ST_Extent" =>
       /\ builder'.box2d.xmin <= builder.box2d.xmin /\ builder'.box2d.ymin <= builder.box2d.ymin
       /\ builder'.box2d.xmax >= builder.box2d.xmax /\ builder'.box2d.ymax >= builder.box2d.ymax]_vars
\* C27: after any update_batch and merge_batch calls the accumulated box is
\* the least xmin and ymin and the greatest xmax and ymax over the bounding
\* boxes of all geometries given so far, whatever the batches and partial
\* states they came in and in whatever order, evaluate() returns that box,
\* and no call makes the box smaller.
C27_ExtentIsMinMax == []ExtentIsMinMax /\ BoxNeverShrinks
\* two different points were given in batches or merged states and the box
\* spanning both was evaluated
C27_Witness ==
  /\ kind = "ST_Extent" /\ Cardinality(pushed) = 2
  /\ inp # <<>> /\ inp.fn = "evaluate"
  /\ out.ok /\ out.v.xmin < out.v.xmax /\ out.v.ymin < out.v.ymax

TranslateCalled == inp # <<>> /\ inp.fn = "ST_Translate" /\ out # NotCalled
\* C30: ST_Translate preserves the encoding dialect: when the input array's
\* dialect() is d and the call succeeds, the output array's dialect() is d.
C30_TranslateKeepsDialect ==
  (TranslateCalled /\ inp.args[1].variant = "Array" /\ WkbGeometryArray_dialect(inp.args[1].a).ok /\ out.ok)
     => WkbGeometryArray_dialect(out.v) = WkbGeometryArray_dialect(inp.args[1].a)

====
